---- MODULE Spec2Model ----
(***************************************************************************)
(* Maximus Engagimus: the TTL cache over localStorage (lib/cache), the     *)
(* stale-while-revalidate fetcher fetchWithCache, the optimistic mutations *)
(* and the cached fetches of the useClients and useClient hooks, the       *)
(* session bootstrap, event handler and signOut of AuthProvider, the focus *)
(* trap of Modal, useGenerator.generate and the PromptEditorModal.         *)
(***************************************************************************)
EXTENDS Integers, Sequences, FiniteSets, TLC

VARIABLES
    now,        \* Date.now(), in milliseconds
    storage,    \* localStorage: full key -> stored string (or absent)
    storageDenied, \* the browser refuses every access to localStorage
    lastOp,     \* the latest direct call of a cache function and what it returned
    lastSet,    \* the latest direct call of setCached
    fetches,    \* the fetchWithCache calls made so far
    clients,    \* useClients: the React state `clients`
    calls,      \* useClients: the create / update / remove calls made so far
    server,     \* the remote clients table
    nextId,     \* the next identifier the remote table hands out
    auth,       \* AuthProvider: its React state and where initializeAuth stands
    hook,       \* useClients / useClient: loading, error, client, toasts, fetches
    modal,      \* Modal: whether it is open, its focusable elements, the focus
    generator,  \* useGenerator: its React state and the generate calls made
    promptEditor \* PromptEditorModal: its props, React state and prompt requests

vars == <<now, storage, storageDenied, lastOp, lastSet, fetches, clients, calls,
          server, nextId, auth, hook, modal, generator, promptEditor>>

cacheVars == <<storage, storageDenied, lastOp, lastSet>>
clientVars == <<clients, calls, server, nextId>>
uiVars == <<auth, hook, modal, generator, promptEditor>>

----------------------------------------------------------------------------
(* Bounds of the model *)

MaxTime == 3
MaxTtl == 2
MaxFetches == 2
MaxCalls == 2
MaxHandlers == 1
MaxLoads == 2
MaxFocusable == 3
MaxSyncCalls == 1
MaxRuns == 2
MaxOpenings == 3

----------------------------------------------------------------------------
(* JavaScript values, as far as the cache can tell them apart *)

Num(n)  == [t |-> "num", n |-> n]
Str(n)  == [t |-> "str", n |-> n]      \* Str(0) is the empty string
Obj(n)  == [t |-> "obj", n |-> n]      \* a plain object or array of JSON data
Date(n) == [t |-> "date", n |-> n]     \* a Date object
Null    == [t |-> "null", n |-> 0]
Undef   == [t |-> "undef", n |-> 0]
NaN     == [t |-> "nan", n |-> 0]
Inf     == [t |-> "inf", n |-> 0]      \* Infinity
Circ    == [t |-> "circ", n |-> 0]     \* an object that refers to itself
Omitted == [t |-> "omitted", n |-> 0]  \* a property JSON.stringify left out

\* ToBoolean: `if (cached)`, `if (!cached)`
Truthy(v) ==
    CASE v.t \in {"null", "undef", "nan", "omitted"} -> FALSE
      [] v.t \in {"num", "str"} -> v.n # 0
      [] OTHER -> TRUE

\* Date.now() + ttl
Plus(t, ttl) ==
    CASE ttl.t = "num" -> Num(t + ttl.n)
      [] ttl.t = "inf" -> Inf
      [] OTHER -> NaN

\* Date.now() > expiresAt, after ToNumber of the right-hand side
GreaterThan(t, e) ==
    CASE e.t = "num" -> t > e.n
      [] e.t = "null" -> t > 0
      [] OTHER -> FALSE

----------------------------------------------------------------------------
(* JSON.stringify and JSON.parse of the entry { data, expiresAt } *)

\* the JSON text of one property value, named by the value the text denotes
Serialize(v) ==
    CASE v.t \in {"nan", "inf"} -> Null
      [] v.t = "date" -> Str(v.n + 1)   \* toJSON(): the ISO string, never empty
      [] v.t = "undef" -> Omitted
      [] OTHER -> v

Absent  == [kind |-> "absent", data |-> Null, expiresAt |-> Null]
\* a stored string that is not the JSON text of an entry object
NotJson == [kind |-> "text", data |-> Null, expiresAt |-> Null]

JSONstringify(data, expiresAt) ==
    IF data.t = "circ"
    THEN [exc |-> TRUE, str |-> Absent]
    ELSE [exc |-> FALSE,
          str |-> [kind |-> "json", data |-> Serialize(data),
                   expiresAt |-> Serialize(expiresAt)]]

JSONparse(str) ==
    IF str.kind = "json"
    THEN [exc |-> FALSE,
          data |-> IF str.data.t = "omitted" THEN Undef ELSE str.data,
          expiresAt |-> IF str.expiresAt.t = "omitted" THEN Undef ELSE str.expiresAt]
    ELSE [exc |-> TRUE, data |-> Undef, expiresAt |-> Undef]

\* what a value is after JSON.parse(JSON.stringify(.)) as the data property
RoundTrips(v) ==
    /\ ~JSONstringify(v, Num(0)).exc
    /\ JSONparse(JSONstringify(v, Num(0)).str).data = v

----------------------------------------------------------------------------
(* lib/cache *)

CACHE_PREFIX == "app_cache_"
Keys == {"clients", "userProfile"}
\* `client_${clientId}` of the one client the model opens
ClientKey == "client_1"
AllKeys == Keys \cup {ClientKey}
StorageKeys == {CACHE_PREFIX \o k : k \in AllKeys} \cup {"theme"}
StartsWithPrefix(sk) == \E k \in AllKeys : sk = CACHE_PREFIX \o k

\* The try block of getCached. denied: the storage medium refuses access.
GetCachedTry_NoEvict(st, key, t, denied) ==
    LET cached == st[CACHE_PREFIX \o key]
        parsed == JSONparse(cached)
    IN  IF denied THEN [exc |-> TRUE, ret |-> Null, st |-> st]
        ELSE IF cached.kind = "absent" THEN [exc |-> FALSE, ret |-> Null, st |-> st]
        ELSE IF parsed.exc THEN [exc |-> TRUE, ret |-> Null, st |-> st]
        ELSE IF GreaterThan(t, parsed.expiresAt)
             THEN [exc |-> FALSE, ret |-> Null, st |-> st]
        ELSE [exc |-> FALSE, ret |-> parsed.data, st |-> st]

GetCachedTry(st, key, t, denied) ==
    LET cached == st[CACHE_PREFIX \o key]
        parsed == JSONparse(cached)
    IN  IF denied THEN [exc |-> TRUE, ret |-> Null, st |-> st]
        ELSE IF cached.kind = "absent" THEN [exc |-> FALSE, ret |-> Null, st |-> st]
        ELSE IF parsed.exc THEN [exc |-> TRUE, ret |-> Null, st |-> st]
        ELSE IF GreaterThan(t, parsed.expiresAt)
             THEN [exc |-> FALSE, ret |-> Null,
                   st |-> [st EXCEPT ![CACHE_PREFIX \o key] = Absent]]
        ELSE [exc |-> FALSE, ret |-> parsed.data, st |-> st]

getCached_NoCatch(st, key, t, denied) ==
    LET r == GetCachedTry(st, key, t, denied)
    IN  [threw |-> r.exc, caught |-> FALSE, ret |-> r.ret, st |-> r.st]

\* threw: an exception leaves the function; caught: the catch block ran
getCached(st, key, t, denied) ==
    LET r == GetCachedTry(st, key, t, denied)
    IN  IF r.exc
        THEN [threw |-> FALSE, caught |-> TRUE, ret |-> Null, st |-> r.st]
        ELSE [threw |-> FALSE, caught |-> FALSE, ret |-> r.ret, st |-> r.st]

\* The try block of setCached. denied: setItem raises (quota, access).
SetCachedTry_TtlAsExpiry(st, key, data, ttl, t, denied) ==
    LET s == JSONstringify(data, ttl)
    IN  IF s.exc \/ denied THEN [exc |-> TRUE, st |-> st]
        ELSE [exc |-> FALSE, st |-> [st EXCEPT ![CACHE_PREFIX \o key] = s.str]]

SetCachedTry(st, key, data, ttl, t, denied) ==
    LET expiresAt == Plus(t, ttl)
        s == JSONstringify(data, expiresAt)
    IN  IF s.exc \/ denied THEN [exc |-> TRUE, st |-> st]
        ELSE [exc |-> FALSE, st |-> [st EXCEPT ![CACHE_PREFIX \o key] = s.str]]

setCached(st, key, data, ttl, t, denied) ==
    LET r == SetCachedTry(st, key, data, ttl, t, denied)
    IN  [threw |-> FALSE, caught |-> r.exc, st |-> r.st]

ClearCacheTry(st, key, denied) ==
    IF denied THEN [exc |-> TRUE, st |-> st]
    ELSE [exc |-> FALSE, st |-> [st EXCEPT ![CACHE_PREFIX \o key] = Absent]]

clearCache(st, key, denied) ==
    LET r == ClearCacheTry(st, key, denied)
    IN  [threw |-> FALSE, caught |-> r.exc, st |-> r.st]

\* The try block of clearAllCaches. denied: Object.keys(localStorage) raises.
ClearAllTry(st, denied) ==
    IF denied THEN [exc |-> TRUE, st |-> st]
    ELSE [exc |-> FALSE,
          st |-> [sk \in StorageKeys |->
                    IF StartsWithPrefix(sk) THEN Absent ELSE st[sk]]]

clearAllCaches(st, denied) ==
    LET r == ClearAllTry(st, denied)
    IN  [threw |-> FALSE, caught |-> r.exc, st |-> r.st]

----------------------------------------------------------------------------
(* Inputs *)

\* values handed to setCached
CacheInputs == {Obj(1), Num(0), NaN, Circ}
\* values a fetch function resolves with
FetchResults == {Obj(2), NaN}
Ttls == {Num(1), Num(MaxTtl), Inf}
\* messages of the errors a fetch function rejects with
FetchErrors == {"Failed to fetch", "JWT expired"}

\* caught: the call's catch block ran. evicted: the call removed the key's entry.
\* afterSet: the call came right after a setCached of the same key, in the same
\* millisecond; data, ttl and wrote are then that setCached's.
NoOp == [op |-> "none", key |-> "", data |-> Null, ttl |-> Null, at |-> 0,
         ret |-> Null, threw |-> FALSE, caught |-> FALSE, wrote |-> FALSE,
         listed |-> FALSE, evicted |-> FALSE, afterSet |-> FALSE]
NoSet == [set |-> FALSE, key |-> "", at |-> 0, ttl |-> Null, wrote |-> FALSE]

Listed(st, key) == st[CACHE_PREFIX \o key].kind # "absent"

\* entries left in localStorage by an earlier page load
SeedEntries ==
    {Absent, NotJson} \cup
    {[kind |-> "json", data |-> d, expiresAt |-> Num(e)] :
        d \in {Obj(1), Num(0)}, e \in {1, 3}}

\* localStorage with the given entries under 'clients', 'userProfile' and
\* the client's key, and the theme preference next to them
SeedStorage(clientsEntry, profileEntry, clientEntry) ==
    [sk \in StorageKeys |->
        IF sk = CACHE_PREFIX \o "clients" THEN clientsEntry
        ELSE IF sk = CACHE_PREFIX \o "userProfile" THEN profileEntry
        ELSE IF sk = CACHE_PREFIX \o ClientKey THEN clientEntry
        ELSE NotJson]

----------------------------------------------------------------------------
(* AuthProvider: values *)

\* a non-empty string with the text s
Msg(s) == [t |-> "str", n |-> 1, s |-> s]

\* session.user and the session object of supabase.auth
SessionUser == [t |-> "obj", n |-> 30]
Session == [t |-> "obj", n |-> 31, user |-> SessionUser]
\* session?.user
UserOf(session) == IF Truthy(session) THEN session.user ELSE Undef

\* the row of organizations joined into a profile
Org == [t |-> "obj", n |-> 20]
\* the organization ensureOrganization inserts
NewOrg == [t |-> "obj", n |-> 21]
\* a row of users with its organization (null when it has none)
Profile(role, organization) ==
    [t |-> "obj", n |-> 10, role |-> role, organization |-> organization]

\* what getUserProfile resolves with
ProfileResults ==
    {Null, Profile("owner", Org), Profile("member", Org), Profile("owner", Null)}

\* an Error or a PostgrestError
Err(message, code) == [t |-> "obj", n |-> 50, message |-> message, code |-> code]
TimeoutError == Err(Msg("auth-init-timeout"), "")
ProfileTimeout == Err(Msg("Profile fetch timeout"), "")
NoRowsError == Err(Msg("JSON object requested, multiple (or no) rows returned"), "PGRST116")
\* errors of supabase.auth.getSession and of the users table
RemoteErrors == {Err(Msg("Failed to fetch"), ""), Err(Str(0), "")}

\* x || null
OrNull(x) == IF Truthy(x) THEN x ELSE Null

\* err?.message || 'Auth initialization failed'
ErrMessage(err) ==
    IF Truthy(err.message) THEN err.message ELSE Msg("Auth initialization failed")

\* useState(null) x 3, useState(true), useState(null); the effect has not run.
\* build: process.env.NODE_ENV. mockAuth: localStorage holds dev:mockAuth =
\* 'true'. pending: SIGNED_IN handlers awaiting getUserProfile.
\* outcome: the way initializeAuth ended. caught: the error its latest catch
\* block received. signOut: none while signOut has not been called, pending
\* while it awaits supabase.auth.signOut, then ok or error, the error field of
\* the value it resolved with being null or not.
AuthInit ==
    [user |-> Null, profile |-> Null, organization |-> Null,
     loading |-> TRUE, error |-> Null,
     mounted |-> TRUE, build |-> "production", mockAuth |-> FALSE,
     pc |-> "start", attempt |-> 0, session |-> Null, profileData |-> Null,
     inCatch |-> FALSE, pending |-> 0, outcome |-> "", caught |-> Null,
     signOut |-> "none"]

\* cached profiles left in localStorage by an earlier page load
ProfileSeeds ==
    {Absent} \cup
    {[kind |-> "json", data |-> d, expiresAt |-> Num(MaxTime + 1)] :
        d \in {Profile("owner", Org), Profile("member", Org), Profile("owner", Null)}}
    \cup {[kind |-> "json", data |-> Profile("owner", Org), expiresAt |-> Num(0)]}

----------------------------------------------------------------------------
(* useClients and useClient: values *)

\* an array of client rows, as getClients resolves with and the cache stores
List(items) == [t |-> "obj", n |-> 60, items |-> items]
\* a client row, as getClient resolves with
ClientRow(val) == [t |-> "obj", n |-> 61, val |-> val]

\* options.activeOnly, useState(true), useState(null) of useClients;
\* useState(null), useState(true),
\* useState(null) of useClient; the error toasts shown; the fetchClients and
\* fetchClient calls made so far
HookInit ==
    [activeOnly |-> FALSE, loading |-> TRUE, error |-> Null,
     client |-> Null, clientLoading |-> TRUE, clientError |-> Null,
     toasts |-> <<>>, loads |-> <<>>]

----------------------------------------------------------------------------
(* Modal: values *)

\* no keydown event yet
NoKey == [key |-> "", shiftKey |-> FALSE, from |-> -1, defaultPrevented |-> FALSE,
          calledOnClose |-> FALSE]

\* A closed Modal. focusable: the length of getFocusableElements(modalRef.current).
\* activeElement: focusable.indexOf(document.activeElement), -1 when the focus
\* is on the modal container or outside the modal. last: the latest keydown.
ModalInit ==
    [isOpen |-> FALSE, closeOnEscape |-> TRUE, focusable |-> 0,
     activeElement |-> -1, last |-> NoKey]

----------------------------------------------------------------------------
(* useGenerator and PromptEditorModal: values *)

\* useState(false), useState(null), useState([]), useState(null); organization:
\* useAuth().organization?.id is set; toasts: the error toasts of rejected
\* inputs; runs: the generate calls that passed the input checks, each with
\* the await it stands at
GeneratorInit ==
    [loading |-> FALSE, error |-> Null, options |-> 0, generationId |-> 0,
     organization |-> FALSE, toasts |-> 0, runs |-> <<>>]

\* the empty string, the prompt generated for a form during an opening of the
\* modal, and a text typed into the text area during an opening
NoText == [t |-> "str", n |-> 0, kind |-> "empty", form |-> 0, opening |-> 0]
FreshPrompt(form, opening) ==
    [t |-> "str", n |-> 1, kind |-> "generated", form |-> form, opening |-> opening]
EditedText(opening) ==
    [t |-> "str", n |-> 1, kind |-> "edited", form |-> 0, opening |-> opening]

\* A closed PromptEditorModal: the isOpen and formData props, useState(''),
\* useState(false) x 2 (isInitialized, isLoading), the number of openings so
\* far, the generatePromptForClipboard calls made, what onSave last received
EditorInit ==
    [isOpen |-> FALSE, formData |-> 0, editedPrompt |-> NoText,
     isInitialized |-> FALSE, isLoading |-> FALSE,
     openings |-> 0, requests |-> <<>>, saved |-> NoText]

----------------------------------------------------------------------------
(* The state after the page has loaded *)

Init ==
    /\ now = 1
    /\ \E e \in SeedEntries : storage = SeedStorage(e, Absent, Absent)
    /\ storageDenied \in BOOLEAN
    /\ lastOp = NoOp
    /\ lastSet = NoSet
    /\ fetches = <<>>
    /\ clients = <<>>
    /\ calls = <<>>
    /\ server = <<>>
    /\ nextId = 1
    /\ auth = AuthInit
    /\ hook = HookInit
    /\ modal = ModalInit
    /\ generator = GeneratorInit
    /\ promptEditor = EditorInit

\* a millisecond passes
Tick ==
    /\ now < MaxTime
    /\ now' = now + 1
    /\ UNCHANGED <<cacheVars, fetches, clientVars, uiVars>>

\* the browser starts or stops refusing access to localStorage (site data
\* blocked or allowed again): from then on every access raises, or none
StorageAccessChanges ==
    /\ storageDenied' = ~storageDenied
    /\ UNCHANGED <<now, storage, lastOp, lastSet, fetches, clientVars, uiVars>>

----------------------------------------------------------------------------
(* Calls of the cache functions *)

GetCached(key) ==
    LET r == getCached(storage, key, now, storageDenied)
        after == lastOp.op = "set" /\ lastOp.key = key /\ lastOp.at = now
    IN  /\ storage' = r.st
        /\ lastOp' = [NoOp EXCEPT !.op = "get", !.key = key, !.at = now,
                                  !.ret = r.ret, !.threw = r.threw,
                                  !.caught = r.caught,
                                  !.listed = Listed(r.st, key),
                                  !.evicted = Listed(storage, key) /\ ~Listed(r.st, key),
                                  !.afterSet = after,
                                  !.data = IF after THEN lastOp.data ELSE Null,
                                  !.ttl = IF after THEN lastOp.ttl ELSE Null,
                                  !.wrote = after /\ lastOp.wrote]
        /\ UNCHANGED <<now, storageDenied, lastSet, fetches, clientVars, uiVars>>

\* quota: setItem raises QuotaExceededError
SetCached(key, data, ttl, quota) ==
    LET r == setCached(storage, key, data, ttl, now, storageDenied \/ quota)
    IN  /\ storage' = r.st
        /\ lastOp' = [NoOp EXCEPT !.op = "set", !.key = key, !.data = data,
                                  !.ttl = ttl, !.at = now, !.threw = r.threw,
                                  !.caught = r.caught, !.wrote = ~r.caught,
                                  !.listed = Listed(r.st, key)]
        /\ lastSet' = [set |-> TRUE, key |-> key, at |-> now, ttl |-> ttl,
                       wrote |-> ~r.caught]
        /\ UNCHANGED <<now, storageDenied, fetches, clientVars, uiVars>>

ClearCache(key) ==
    LET r == clearCache(storage, key, storageDenied)
    IN  /\ storage' = r.st
        /\ lastOp' = [NoOp EXCEPT !.op = "clear", !.key = key, !.at = now,
                                  !.threw = r.threw, !.caught = r.caught,
                                  !.listed = Listed(r.st, key),
                                  !.evicted = Listed(storage, key) /\ ~Listed(r.st, key)]
        /\ UNCHANGED <<now, storageDenied, lastSet, fetches, clientVars, uiVars>>

ClearAllCaches ==
    LET r == clearAllCaches(storage, storageDenied)
    IN  /\ storage' = r.st
        /\ lastOp' = [NoOp EXCEPT !.op = "clearAll", !.at = now,
                                  !.threw = r.threw, !.caught = r.caught,
                                  !.listed = \E k \in AllKeys : Listed(r.st, k)]
        /\ UNCHANGED <<now, storageDenied, lastSet, fetches, clientVars, uiVars>>

NextCache ==
    \/ Tick
    \/ StorageAccessChanges
    \/ \E k \in Keys : GetCached(k)
    \/ \E v \in CacheInputs, ttl \in Ttls, q \in BOOLEAN :
          SetCached("clients", v, ttl, q)
    \/ \E k \in Keys : ClearCache(k)
    \/ ClearAllCaches

SpecCache == Init /\ [][NextCache]_vars

----------------------------------------------------------------------------
(* fetchWithCache *)

\* the cache can read an unexpired entry of the key
Held(st, key, t, denied) ==
    /\ ~denied
    /\ st[CACHE_PREFIX \o key].kind = "json"
    /\ ~GreaterThan(t, st[CACHE_PREFIX \o key].expiresAt)

\* fetchWithCache up to its first suspension: the cache read and the branch taken
FetchWithCacheEntry(st, key, t, denied) ==
    LET g == getCached(st, key, t, denied)
    IN  [hit |-> Truthy(g.ret), cached |-> g.ret, st |-> g.st]

\* A fetchWithCache call. mode "bg": the cache hit, fetchFn runs in the
\* background; mode "await": the call awaits fetchFn. held, heldVal: what the
\* cache held for the key when the call was made.
FetchWithCache(key, ttl) ==
    LET e == FetchWithCacheEntry(storage, key, now, storageDenied)
        held == Held(storage, key, now, storageDenied)
    IN  /\ Len(fetches) < MaxFetches
        /\ storage' = e.st
        /\ fetches' = Append(fetches,
              [key |-> key, ttl |-> ttl,
               mode |-> IF e.hit THEN "bg" ELSE "await",
               held |-> held,
               heldVal |-> IF held THEN storage[CACHE_PREFIX \o key].data ELSE Null,
               result |-> IF e.hit THEN "resolved" ELSE "pending",
               value |-> IF e.hit THEN e.cached ELSE Null,
               error |-> "", fetch |-> "pending", invoked |-> 1])
        /\ UNCHANGED <<now, storageDenied, lastOp, lastSet, clientVars, uiVars>>

\* fetchFn resolves in the background branch, but the .then handler is missing
FetchFnResolves_NoStore(i, data, quota) ==
    LET f == fetches[i]
        r == setCached(storage, f.key, data, f.ttl, now, storageDenied \/ quota)
    IN  /\ f.fetch = "pending"
        /\ storage' = IF f.mode = "bg" THEN storage ELSE r.st
        /\ fetches' = [fetches EXCEPT ![i] =
              [f EXCEPT !.fetch = "ok",
                        !.result = IF f.mode = "await" THEN "resolved" ELSE f.result,
                        !.value = IF f.mode = "await" THEN data ELSE f.value]]
        /\ UNCHANGED <<now, storageDenied, lastOp, lastSet, clientVars, uiVars>>

\* fetchFn resolves, but the awaiting branch returns what the cache now reads
FetchFnResolves_ReturnsStored(i, data, quota) ==
    LET f == fetches[i]
        r == setCached(storage, f.key, data, f.ttl, now, storageDenied \/ quota)
    IN  /\ f.fetch = "pending"
        /\ storage' = r.st
        /\ fetches' = [fetches EXCEPT ![i] =
              [f EXCEPT !.fetch = "ok",
                        !.result = IF f.mode = "await" THEN "resolved" ELSE f.result,
                        !.value = IF f.mode = "await"
                                  THEN getCached(r.st, f.key, now, storageDenied).ret
                                  ELSE f.value]]
        /\ UNCHANGED <<now, storageDenied, lastOp, lastSet, clientVars, uiVars>>

\* fetchFn resolves with data: both branches store it, the awaiting one returns it
FetchFnResolves(i, data, quota) ==
    LET f == fetches[i]
        r == setCached(storage, f.key, data, f.ttl, now, storageDenied \/ quota)
    IN  /\ f.fetch = "pending"
        /\ storage' = r.st
        /\ fetches' = [fetches EXCEPT ![i] =
              [f EXCEPT !.fetch = "ok",
                        !.result = IF f.mode = "await" THEN "resolved" ELSE f.result,
                        !.value = IF f.mode = "await" THEN data ELSE f.value]]
        /\ UNCHANGED <<now, storageDenied, lastOp, lastSet, clientVars, uiVars>>

\* fetchFn rejects, but the awaiting branch swallows the error like the
\* background branch does
FetchFnRejects_Swallows(i, err) ==
    LET f == fetches[i]
    IN  /\ f.fetch = "pending"
        /\ fetches' = [fetches EXCEPT ![i] =
              [f EXCEPT !.fetch = "fail",
                        !.result = IF f.mode = "await" THEN "resolved" ELSE f.result]]
        /\ UNCHANGED <<now, cacheVars, clientVars, uiVars>>

\* fetchFn rejects with err: the background branch logs it, the awaiting one
\* rejects with it
FetchFnRejects(i, err) ==
    LET f == fetches[i]
    IN  /\ f.fetch = "pending"
        /\ fetches' = [fetches EXCEPT ![i] =
              [f EXCEPT !.fetch = "fail",
                        !.result = IF f.mode = "await" THEN "rejected" ELSE f.result,
                        !.error = IF f.mode = "await" THEN err ELSE f.error]]
        /\ UNCHANGED <<now, cacheVars, clientVars, uiVars>>

NextFetch ==
    \/ Tick
    \/ \E ttl \in Ttls : FetchWithCache("clients", ttl)
    \/ \E i \in 1..Len(fetches), d \in FetchResults, q \in BOOLEAN :
          FetchFnResolves(i, d, q)
    \/ \E i \in 1..Len(fetches), err \in FetchErrors : FetchFnRejects(i, err)

\* the page has loaded with nothing cached under 'clients', with text that is
\* not an entry, or with an entry (of a truthy or a falsy value) about to expire
InitFetch ==
    /\ now = 1
    /\ \E e \in {Absent, NotJson} \cup
                 {[kind |-> "json", data |-> d, expiresAt |-> Num(MaxTtl)] :
                     d \in {Obj(1), Num(0)}} :
          storage = SeedStorage(e, Absent, Absent)
    /\ storageDenied \in BOOLEAN
    /\ lastOp = NoOp
    /\ lastSet = NoSet
    /\ fetches = <<>>
    /\ clients = <<>>
    /\ calls = <<>>
    /\ server = <<>>
    /\ nextId = 1
    /\ auth = AuthInit
    /\ hook = HookInit
    /\ modal = ModalInit
    /\ generator = GeneratorInit
    /\ promptEditor = EditorInit

SpecFetch == InitFetch /\ [][NextFetch]_vars

----------------------------------------------------------------------------
(* useClients: entities and the remote table *)

\* `temp-${Date.now()}`
TempId(t) == [temp |-> TRUE, n |-> t]
\* an identifier handed out by the remote table
ServerId(n) == [temp |-> FALSE, n |-> n]
\* c.id.startsWith('temp-')
StartsWithTemp(id) == id.temp

Entity(id, val) == [id |-> id, val |-> val]
NoEntity == Entity(ServerId(0), 0)

\* the values of the one data field a client carries in the model
Vals == {1, 2}

Has(coll, id) == \E j \in 1..Len(coll) : coll[j].id = id

\* prev.map(c => (c.id === id ? f(c) : c)), with f(c) = { ...c, ...patch }
MapPatch(coll, id, patch) ==
    [j \in 1..Len(coll) |->
        IF coll[j].id = id THEN [coll[j] EXCEPT !.val = patch.val] ELSE coll[j]]

\* prev.map(c => (c.id === id ? e : c))
MapReplace(coll, id, e) ==
    [j \in 1..Len(coll) |-> IF coll[j].id = id THEN e ELSE coll[j]]

\* prev.filter(c => keep(c))
FilterOutId(coll, id) ==
    LET Keep(c) == c.id # id IN SelectSeq(coll, Keep)
FilterOutTemp(coll) ==
    LET Keep(c) == ~StartsWithTemp(c.id) IN SelectSeq(coll, Keep)

\* The remote table (lib/supabase): insert returns the new row, update returns
\* the changed row and fails when there is no row, delete removes the row.
RemoteInsert(tbl, n, val) ==
    [row |-> Entity(ServerId(n), val), tbl |-> Append(tbl, Entity(ServerId(n), val))]
RemoteCanUpdate(tbl, id) == Has(tbl, id)
RemoteUpdate(tbl, id, val) ==
    [row |-> Entity(id, val), tbl |-> MapPatch(tbl, id, [val |-> val])]
RemoteDelete(tbl, id) == FilterOutId(tbl, id)

----------------------------------------------------------------------------
(* useClients: create, update, remove *)

\* The names the catch block of update / remove can resolve: the function's
\* parameters and what the hook body binds. `const prevClients` is declared
\* inside the try block, which is a sibling block of the catch block.
CatchScope == {"clients", "setClients", "clientId", "updates", "err", "toast", "console"}

\* The catch block of update and of remove: console.error, setClients(prevClients),
\* toast.error, return { data: null, error: err }. Evaluating a name that is not
\* in scope raises a ReferenceError, which leaves the async function as a rejection.
RollbackCatch(coll, prevClients) ==
    IF "prevClients" \in CatchScope
    THEN [threw |-> FALSE, clients |-> prevClients, toastError |-> 1]
    ELSE [threw |-> TRUE, clients |-> coll, toastError |-> 0]

\* a catch block of create that leaves the collection as it finds it
CreateCatch_KeepsAll(coll) ==
    [threw |-> FALSE, clients |-> coll, toastError |-> 1]

\* The catch block of create
CreateCatch(coll) ==
    [threw |-> FALSE, clients |-> FilterOutTemp(coll), toastError |-> 1]

\* A call. pre: the collection when the call began; applied: right after its
\* optimistic change; mid: right before its continuation ran; post: when it
\* settled. status: how the returned promise settled; retData, retError: the
\* fields of the value it resolved with.
NewCall(kind, id, val, pre, applied) ==
    [kind |-> kind, id |-> id, val |-> val, prevClients |-> pre,
     remote |-> "pending", status |-> "pending",
     retData |-> NoEntity, retError |-> "none",
     toastSuccess |-> 0, toastError |-> 0,
     pre |-> pre, applied |-> applied, mid |-> <<>>, post |-> <<>>]

CreateStart(val) ==
    LET optimisticClient == Entity(TempId(now), val)
        applied == Append(clients, optimisticClient)
    IN  /\ Len(calls) < MaxCalls
        /\ clients' = applied
        /\ calls' = Append(calls, NewCall("create", optimisticClient.id, val, clients, applied))
        /\ UNCHANGED <<now, cacheVars, fetches, server, nextId, uiVars>>

UpdateStart(clientId, val) ==
    LET applied == MapPatch(clients, clientId, [val |-> val])
    IN  /\ Len(calls) < MaxCalls
        /\ clients' = applied
        /\ calls' = Append(calls, NewCall("update", clientId, val, clients, applied))
        /\ UNCHANGED <<now, cacheVars, fetches, server, nextId, uiVars>>

RemoveStart(clientId) ==
    LET applied == FilterOutId(clients, clientId)
    IN  /\ Len(calls) < MaxCalls
        /\ clients' = applied
        /\ calls' = Append(calls, NewCall("remove", clientId, 0, clients, applied))
        /\ UNCHANGED <<now, cacheVars, fetches, server, nextId, uiVars>>

\* the rest of the try block, after the remote call has resolved
Succeeds(i, row, coll, tbl, n) ==
    LET c == calls[i]
    IN  /\ c.remote = "pending"
        /\ clients' = coll
        /\ server' = tbl
        /\ nextId' = n
        /\ storage' = clearCache(storage, "clients", storageDenied).st
        /\ calls' = [calls EXCEPT ![i] =
              [c EXCEPT !.remote = "ok", !.status = "resolved", !.retData = row,
                        !.toastSuccess = 1, !.mid = clients, !.post = coll]]
        /\ UNCHANGED <<now, storageDenied, lastOp, lastSet, fetches, uiVars>>

\* the catch block, after the remote call has rejected
Fails(i, catch) ==
    LET c == calls[i]
    IN  /\ c.remote = "pending"
        /\ clients' = catch.clients
        /\ calls' = [calls EXCEPT ![i] =
              [c EXCEPT !.remote = "fail",
                        !.status = IF catch.threw THEN "rejected" ELSE "resolved",
                        !.retError = IF catch.threw THEN "ReferenceError" ELSE "remote",
                        !.toastError = catch.toastError,
                        !.mid = clients, !.post = catch.clients]]
        /\ UNCHANGED <<now, cacheVars, fetches, server, nextId, uiVars>>

CreateSucceeds(i) ==
    LET r == RemoteInsert(server, nextId, calls[i].val)
    IN  /\ calls[i].kind = "create"
        /\ Succeeds(i, r.row, MapReplace(clients, calls[i].id, r.row), r.tbl, nextId + 1)

CreateFails(i) ==
    /\ calls[i].kind = "create"
    /\ Fails(i, CreateCatch(clients))

UpdateSucceeds(i) ==
    LET r == RemoteUpdate(server, calls[i].id, calls[i].val)
    IN  /\ calls[i].kind = "update"
        /\ RemoteCanUpdate(server, calls[i].id)
        /\ Succeeds(i, r.row, MapPatch(clients, calls[i].id, r.row), r.tbl, nextId)

UpdateFails(i) ==
    /\ calls[i].kind = "update"
    /\ Fails(i, RollbackCatch(clients, calls[i].prevClients))

RemoveSucceeds(i) ==
    /\ calls[i].kind = "remove"
    /\ Succeeds(i, NoEntity, clients, RemoteDelete(server, calls[i].id), nextId)

RemoveFails(i) ==
    /\ calls[i].kind = "remove"
    /\ Fails(i, RollbackCatch(clients, calls[i].prevClients))

Ids(coll) == {coll[j].id : j \in 1..Len(coll)}

NextClients ==
    \/ Tick
    \/ \E v \in Vals : CreateStart(v)
    \/ \E id \in Ids(clients), v \in Vals : UpdateStart(id, v)
    \/ \E id \in Ids(clients) : RemoveStart(id)
    \/ \E i \in 1..Len(calls) : CreateSucceeds(i)
    \/ \E i \in 1..Len(calls) : CreateFails(i)
    \/ \E i \in 1..Len(calls) : UpdateSucceeds(i)
    \/ \E i \in 1..Len(calls) : UpdateFails(i)
    \/ \E i \in 1..Len(calls) : RemoveSucceeds(i)
    \/ \E i \in 1..Len(calls) : RemoveFails(i)

SpecClients == Init /\ [][NextClients]_vars

----------------------------------------------------------------------------
(* AuthProvider: initializeAuth *)

PROFILE_TTL == Num(10 * 60 * 1000)

MockUser == [t |-> "obj", n |-> 40]
MockProfile == Profile("owner", [t |-> "obj", n |-> 41])

authFrame == <<now, storageDenied, lastOp, lastSet, fetches, clientVars, hook, modal,
               generator, promptEditor>>

\* setUser, setProfile, setOrganization(profile?.organization || null)
ShowProfile(a, user, profile) ==
    [a EXCEPT !.user = user, !.profile = profile,
              !.organization = OrNull(profile.organization)]

\* setUser(null); setProfile(null); setOrganization(null)
ShowNobody(a) ==
    [a EXCEPT !.user = Null, !.profile = Null, !.organization = Null]

\* initializeAuth has returned
Ended(a, outcome) == [a EXCEPT !.pc = "done", !.outcome = outcome]

\* the catch block of initializeAuth
OuterCatch_NoError(a, err) ==
    Ended(IF a.mounted
          THEN [ShowNobody(a) EXCEPT !.loading = FALSE, !.caught = err]
          ELSE [a EXCEPT !.caught = err],
          "failed")

OuterCatch(a, err) ==
    Ended(IF a.mounted
          THEN [ShowNobody(a) EXCEPT !.error = ErrMessage(err), !.loading = FALSE,
                                     !.caught = err]
          ELSE [a EXCEPT !.caught = err],
          "failed")

\* ensureOrganization; ok: the calls it makes to the remote tables succeed
ensureOrganization(currentProfile, ok) ==
    IF ~Truthy(currentProfile) THEN Null
    ELSE IF Truthy(currentProfile.organization)
         THEN IF currentProfile.role # "owner" /\ ok
              THEN [currentProfile EXCEPT !.role = "owner"]
              ELSE currentProfile
    ELSE IF ok
         THEN [currentProfile EXCEPT !.organization = NewOrg, !.role = "owner"]
    ELSE currentProfile

\* ensureOrganization awaits a remote call outside its try block
AwaitsUnguarded(currentProfile) ==
    /\ Truthy(currentProfile)
    /\ Truthy(currentProfile.organization)
    /\ currentProfile.role # "owner"

\* `if (mounted) { ... }` after the session check, up to the profile fetch
AfterSession(a, st, session, denied) ==
    IF ~a.mounted THEN [a |-> Ended(a, "unmounted"), st |-> st]
    ELSE IF Truthy(UserOf(session))
    THEN LET g == getCached(st, "userProfile", now, denied)
             shown == IF Truthy(g.ret) THEN ShowProfile(a, session.user, g.ret) ELSE a
         IN  [a |-> [shown EXCEPT !.pc = "fetchingProfile", !.session = session],
              st |-> g.st]
    ELSE [a |-> Ended([ShowNobody(a) EXCEPT !.loading = FALSE], "anonymous"),
          st |-> st]

\* the catch block around the session check
SessionCatch_AllFatal(a, st, err, denied) ==
    [a |-> OuterCatch(a, err), st |-> st]

SessionCatch(a, st, err, denied) ==
    IF err.message = Msg("auth-init-timeout")
    THEN AfterSession([a EXCEPT !.caught = err], st, Null, denied)
    ELSE [a |-> OuterCatch(a, err), st |-> st]

\* `if (mounted && profileData) { ... }` and setLoading(false)
StoreAndShow(a, st, profileData, denied) ==
    LET stored == a.mounted /\ Truthy(profileData)
        w == setCached(st, "userProfile", profileData, PROFILE_TTL, now, denied)
        shown == IF stored THEN ShowProfile(a, a.session.user, profileData) ELSE a
    IN  [a |-> Ended(IF a.mounted THEN [shown EXCEPT !.loading = FALSE] ELSE shown,
                     IF Truthy(profileData) THEN "fetched" ELSE "noProfile"),
         st |-> IF stored THEN w.st ELSE st]

\* profileErr?.code === 'PGRST116' || profileErr?.message?.includes('No rows')
IsNoRows(err) == err.code = "PGRST116" \/ err.message = Msg("No rows found")

Fallback_UserOnly(a, st, denied) ==
    [a |-> Ended(IF a.mounted
                 THEN [a EXCEPT !.user = a.session.user, !.loading = FALSE]
                 ELSE a,
                 "fallback"),
     st |-> st]

\* catch (profileErr): the branch that falls back to the cached profile
Fallback(a, st, denied) ==
    LET g == getCached(st, "userProfile", now, denied)
        shown == IF ~a.mounted THEN a
                 ELSE IF ~Truthy(g.ret) THEN [a EXCEPT !.user = a.session.user]
                 ELSE ShowProfile(a, a.session.user, g.ret)
    IN  [a |-> Ended(IF a.mounted THEN [shown EXCEPT !.loading = FALSE] ELSE shown,
                     "fallback"),
         st |-> IF a.mounted THEN g.st ELSE st]

\* catch (profileErr)
ProfileCatch(a, st, err, denied) ==
    IF IsNoRows(err)
    THEN [a |-> [a EXCEPT !.pc = "insertingProfile", !.inCatch = TRUE,
                          !.caught = err],
          st |-> st]
    ELSE Fallback([a EXCEPT !.caught = err], st, denied)

\* The effect runs: initializeAuth up to the session check. Reading
\* localStorage for the mock flag raises when the browser refuses access.
InitializeAuth ==
    LET g == getCached(storage, "userProfile", now, storageDenied)
        invalid == /\ Truthy(g.ret)
                   /\ g.ret.role = "member"
                   /\ Truthy(g.ret.organization)
        st == IF invalid THEN clearCache(g.st, "userProfile", storageDenied).st
              ELSE g.st
    IN  /\ auth.pc = "start"
        /\ storage' = st
        /\ auth' =
              IF auth.build # "production" /\ storageDenied
              THEN OuterCatch(auth, Err(Msg("The operation is insecure."), ""))
              ELSE IF auth.build # "production" /\ auth.mockAuth
              THEN Ended([auth EXCEPT !.user = MockUser, !.profile = MockProfile,
                                      !.organization = MockProfile.organization,
                                      !.loading = FALSE], "mock")
              ELSE [auth EXCEPT !.pc = "checkingSession"]
        /\ UNCHANGED authFrame

\* getSession is aborted for the first time: getSessionWithRetry tries again
SessionAborts ==
    /\ auth.pc = "checkingSession"
    /\ auth.attempt = 0
    /\ auth' = [auth EXCEPT !.attempt = 1]
    /\ UNCHANGED <<storage, authFrame>>

\* getSession resolves with { data: { session }, error } before the timer
SessionResolves(session, sessionError) ==
    LET r == IF Truthy(sessionError)
             THEN SessionCatch(auth, storage, sessionError, storageDenied)
             ELSE AfterSession(auth, storage, session, storageDenied)
    IN  /\ auth.pc = "checkingSession"
        /\ auth' = r.a
        /\ storage' = r.st
        /\ UNCHANGED authFrame

\* getSession rejects before the timer (a second abort included)
SessionThrows(err) ==
    LET r == SessionCatch(auth, storage, err, storageDenied)
    IN  /\ auth.pc = "checkingSession"
        /\ auth' = r.a
        /\ storage' = r.st
        /\ UNCHANGED authFrame

\* the 2000 ms timer wins the race
SessionTimesOut ==
    LET r == SessionCatch(auth, storage, TimeoutError, storageDenied)
    IN  /\ auth.pc = "checkingSession"
        /\ auth' = r.a
        /\ storage' = r.st
        /\ UNCHANGED authFrame

\* getUserProfile resolves before its timer; ensureOrganization is entered
ProfileResolves(profileData) ==
    /\ auth.pc \in {"fetchingProfile", "refetchingProfile"}
    /\ auth' = [auth EXCEPT !.pc = "ensuringOrg", !.profileData = profileData]
    /\ UNCHANGED <<storage, authFrame>>

\* getUserProfile rejects, or its 2000 ms timer wins the race
ProfileFails(err) ==
    LET r == ProfileCatch(auth, storage, err, storageDenied)
    IN  /\ auth.pc = "fetchingProfile"
        /\ auth' = r.a
        /\ storage' = r.st
        /\ UNCHANGED authFrame

\* the insert of the missing users row returns
InsertSettles(insertError) ==
    /\ auth.pc = "insertingProfile"
    /\ auth' = IF Truthy(insertError) THEN OuterCatch(auth, insertError)
               ELSE [auth EXCEPT !.pc = "refetchingProfile"]
    /\ UNCHANGED <<storage, authFrame>>

\* the fetch after the insert fails: the inserted data is used
RefetchFails ==
    /\ auth.pc = "refetchingProfile"
    /\ auth' = [auth EXCEPT !.pc = "ensuringOrg",
                            !.profileData = Profile("owner", Null)]
    /\ UNCHANGED <<storage, authFrame>>

\* ensureOrganization returns
EnsureOrganizationReturns(ok, quota) ==
    LET r == StoreAndShow(auth, storage, ensureOrganization(auth.profileData, ok),
                          storageDenied \/ quota)
    IN  /\ auth.pc = "ensuringOrg"
        /\ auth' = r.a
        /\ storage' = r.st
        /\ UNCHANGED authFrame

\* the role update that ensureOrganization awaits outside its try block rejects
EnsureOrganizationThrows(err) ==
    LET r == IF auth.inCatch THEN [a |-> OuterCatch(auth, err), st |-> storage]
             ELSE ProfileCatch(auth, storage, err, storageDenied)
    IN  /\ auth.pc = "ensuringOrg"
        /\ AwaitsUnguarded(auth.profileData)
        /\ auth' = r.a
        /\ storage' = r.st
        /\ UNCHANGED authFrame

\* the provider unmounts: the cleanup sets mounted = false and unsubscribes
Unmount ==
    /\ auth.pc # "start"
    /\ auth.mounted
    /\ auth' = [auth EXCEPT !.mounted = FALSE]
    /\ UNCHANGED <<storage, authFrame>>

----------------------------------------------------------------------------
(* AuthProvider: the onAuthStateChange handler *)

AuthEvents == {"SIGNED_IN", "TOKEN_REFRESHED", "INITIAL_SESSION", "SIGNED_OUT"}

\* a handler that fetches the profile on every event with a session user
AuthStateChange_AlwaysFetches(event, session) ==
    LET user == UserOf(session)
    IN  /\ auth.pc # "start"
        /\ auth.mounted
        /\ Truthy(user) => auth.pending < MaxHandlers
        /\ auth' = IF ~Truthy(user) THEN ShowNobody(auth)
                   ELSE [auth EXCEPT !.pending = auth.pending + 1]
        /\ UNCHANGED <<storage, authFrame>>

\* supabase calls the handler; on SIGNED_IN it suspends at getUserProfile
AuthStateChange(event, session) ==
    LET g == getCached(storage, "userProfile", now, storageDenied)
        user == UserOf(session)
        restores == Truthy(user) /\ event # "SIGNED_IN"
    IN  /\ auth.pc # "start"
        /\ auth.mounted
        /\ Truthy(user) /\ event = "SIGNED_IN" => auth.pending < MaxHandlers
        /\ auth' =
              IF ~Truthy(user) THEN ShowNobody(auth)
              ELSE IF event = "SIGNED_IN"
              THEN [auth EXCEPT !.pending = auth.pending + 1]
              ELSE IF Truthy(g.ret) THEN ShowProfile(auth, user, g.ret)
              ELSE [auth EXCEPT !.user = user]
        /\ storage' = IF restores THEN g.st ELSE storage
        /\ UNCHANGED authFrame

\* getUserProfile resolves in a SIGNED_IN handler
HandlerProfileResolves(profileData, quota) ==
    LET stored == auth.mounted /\ Truthy(profileData)
        w == setCached(storage, "userProfile", profileData, PROFILE_TTL, now,
                       storageDenied \/ quota)
        a == [auth EXCEPT !.pending = auth.pending - 1]
    IN  /\ auth.pending > 0
        /\ auth' = IF stored THEN ShowProfile(a, SessionUser, profileData)
                   ELSE IF auth.mounted THEN [a EXCEPT !.user = SessionUser]
                   ELSE a
        /\ storage' = IF stored THEN w.st ELSE storage
        /\ UNCHANGED authFrame

\* getUserProfile rejects or times out in a SIGNED_IN handler
HandlerProfileFails ==
    LET a == [auth EXCEPT !.pending = auth.pending - 1]
    IN  /\ auth.pending > 0
        /\ auth' = IF auth.mounted THEN [a EXCEPT !.user = SessionUser] ELSE a
        /\ UNCHANGED <<storage, authFrame>>

InitAuth ==
    /\ now = 1
    /\ \E p \in ProfileSeeds : storage = SeedStorage(Absent, p, Absent)
    /\ storageDenied \in BOOLEAN
    /\ lastOp = NoOp
    /\ lastSet = NoSet
    /\ fetches = <<>>
    /\ clients = <<>>
    /\ calls = <<>>
    /\ server = <<>>
    /\ nextId = 1
    /\ \E b \in {"production", "development"}, m \in BOOLEAN :
          auth = [AuthInit EXCEPT !.build = b, !.mockAuth = m]
    /\ hook = HookInit
    /\ modal = ModalInit
    /\ generator = GeneratorInit
    /\ promptEditor = EditorInit

NextAuth ==
    \/ InitializeAuth
    \/ SessionAborts
    \/ \E s \in {Null, Session}, se \in {Null} \cup RemoteErrors : SessionResolves(s, se)
    \/ \E err \in RemoteErrors : SessionThrows(err)
    \/ SessionTimesOut
    \/ \E pd \in ProfileResults : ProfileResolves(pd)
    \/ \E err \in {ProfileTimeout, NoRowsError} \cup RemoteErrors : ProfileFails(err)
    \/ \E ie \in {Null} \cup RemoteErrors : InsertSettles(ie)
    \/ RefetchFails
    \/ \E ok \in BOOLEAN, q \in BOOLEAN : EnsureOrganizationReturns(ok, q)
    \/ \E err \in RemoteErrors : EnsureOrganizationThrows(err)
    \/ Unmount
    \/ \E ev \in AuthEvents, s \in {Null, Session} : AuthStateChange(ev, s)
    \/ \E pd \in ProfileResults, q \in BOOLEAN : HandlerProfileResolves(pd, q)
    \/ HandlerProfileFails

SpecAuth == InitAuth /\ [][NextAuth]_vars

\* ensureOrganization awaits a call to the remote tables before it returns
AwaitsRemote(currentProfile) ==
    /\ Truthy(currentProfile)
    /\ ~Truthy(currentProfile.organization) \/ currentProfile.role # "owner"

\* What runs without an answer from the remote side: the effect, the three
\* 2000 ms timers, and ensureOrganization when it has no remote call to make.
\* Nothing obliges the remote side to answer.
AuthFairness ==
    /\ WF_vars(InitializeAuth)
    /\ WF_vars(SessionTimesOut)
    /\ WF_vars(ProfileFails(ProfileTimeout))
    /\ WF_vars(RefetchFails)
    /\ WF_vars(/\ ~AwaitsRemote(auth.profileData)
               /\ \E ok \in BOOLEAN, q \in BOOLEAN : EnsureOrganizationReturns(ok, q))

SpecAuthLive == SpecAuth /\ AuthFairness

----------------------------------------------------------------------------
(* AuthProvider: signOut *)

\* signOut up to its await; localStorage.removeItem raises when the browser
\* refuses access, which the catch block turns into { error: err }
SignOut ==
    /\ auth.pc # "start"
    /\ auth.mounted
    /\ auth.signOut = "none"
    /\ auth' = IF storageDenied
               THEN [auth EXCEPT !.error = Msg("The operation is insecure."),
                                 !.signOut = "error"]
               ELSE [auth EXCEPT !.error = Null, !.mockAuth = FALSE,
                                 !.signOut = "pending"]
    /\ storage' = IF storageDenied THEN storage
                  ELSE clearCache(storage, "userProfile", storageDenied).st
    /\ UNCHANGED authFrame

\* supabase.auth.signOut resolves with { error }
SignOutSettles(error) ==
    /\ auth.signOut = "pending"
    /\ auth' = IF Truthy(error)
               THEN [auth EXCEPT !.error = IF auth.mounted THEN error.message ELSE @,
                                 !.signOut = "error"]
               ELSE [(IF auth.mounted THEN ShowNobody(auth) ELSE auth)
                        EXCEPT !.signOut = "ok"]
    /\ UNCHANGED <<storage, authFrame>>

NextSession ==
    \/ NextAuth
    \/ SignOut
    \/ \E error \in {Null} \cup RemoteErrors : SignOutSettles(error)

SpecSession == InitAuth /\ [][NextSession]_vars

----------------------------------------------------------------------------
(* useClients.fetchClients and useClient.fetchClient *)

LIST_TTL == Num(10 * 60 * 1000)

\* what getClients resolves with
ClientLists == {Null, List(<<>>), List(<<Entity(ServerId(1), 1)>>)}
\* what getClient resolves with
ClientRows == {Null, ClientRow(1)}

\* the rejection of the 2000 ms timer, and an error of the remote call
LoadTimeout(h) ==
    IF h = "useClients" THEN Err(Msg("Request timed out while fetching clients"), "")
    ELSE Err(Msg("Request timed out while fetching client"), "")
LoadErrors(h) == {LoadTimeout(h), Err(Msg("Failed to fetch"), "")}

loadFrame == <<now, storageDenied, lastOp, lastSet, fetches, calls, server, nextId, auth,
               modal, generator, promptEditor>>

\* setClients(value)
ItemsOf(value) == value.items

\* A fetchClients or fetchClient call at its await. cached: what getCached
\* returned. activeOnly: the argument it hands to getClients. data: what the
\* remote call read from the table, seen: the number of mutations the table had
\* confirmed by then (Undef, 0 while the table has not been read). error: what
\* its catch block received.
NewLoad(h, cached) ==
    [hook |-> h, cached |-> cached, state |-> "pending", error |-> Null,
     activeOnly |-> hook.activeOnly, data |-> Undef, seen |-> 0]

\* fetchClients, up to its await. cached: what getCached returned.
FetchClients ==
    LET g == getCached(storage, "clients", now, storageDenied)
    IN  /\ Len(hook.loads) < MaxLoads
        /\ storage' = g.st
        /\ clients' = IF Truthy(g.ret) THEN ItemsOf(g.ret) ELSE clients
        /\ hook' = [hook EXCEPT
              !.loading = IF Truthy(g.ret) THEN @ ELSE TRUE,
              !.error = Null,
              !.loads = Append(@, NewLoad("useClients", g.ret))]
        /\ UNCHANGED loadFrame

\* getClients resolves before the timer
FetchClientsResolves(i, data, quota) ==
    LET l == hook.loads[i]
        w == setCached(storage, "clients", data, LIST_TTL, now, storageDenied \/ quota)
    IN  /\ l.hook = "useClients" /\ l.state = "pending"
        /\ clients' = IF Truthy(data) THEN ItemsOf(data) ELSE clients
        /\ storage' = IF Truthy(data) THEN w.st ELSE storage
        /\ hook' = [hook EXCEPT !.loading = FALSE, !.loads[i].state = "resolved"]
        /\ UNCHANGED loadFrame

\* catch (fetchErr) of fetchClients, reporting whatever the cache had held
FetchClientsFails_AlwaysReports(i, fetchErr) ==
    LET l == hook.loads[i]
    IN  /\ l.hook = "useClients" /\ l.state = "pending"
        /\ hook' = [hook EXCEPT
              !.error = fetchErr.message,
              !.toasts = Append(@, "Failed to load clients"),
              !.loading = FALSE,
              !.loads[i].state = "failed",
              !.loads[i].error = fetchErr]
        /\ UNCHANGED <<storage, clients, loadFrame>>

\* getClients rejects, or the timer wins the race
FetchClientsFails(i, fetchErr) ==
    LET l == hook.loads[i]
        report == ~Truthy(l.cached)
    IN  /\ l.hook = "useClients" /\ l.state = "pending"
        /\ hook' = [hook EXCEPT
              !.error = IF report THEN fetchErr.message ELSE @,
              !.toasts = IF report THEN Append(@, "Failed to load clients") ELSE @,
              !.loading = FALSE,
              !.loads[i].state = "failed",
              !.loads[i].error = fetchErr]
        /\ UNCHANGED <<storage, clients, loadFrame>>

\* fetchClient of a hook without clientId: `if (!clientId)`
FetchClientWithoutId ==
    /\ hook.clientLoading
    /\ hook.loads = <<>>
    /\ hook' = [hook EXCEPT !.clientLoading = FALSE]
    /\ UNCHANGED <<storage, clients, loadFrame>>

\* fetchClient, up to its await
FetchClient ==
    LET g == getCached(storage, ClientKey, now, storageDenied)
    IN  /\ Len(hook.loads) < MaxLoads
        /\ storage' = g.st
        /\ hook' = [hook EXCEPT
              !.client = IF Truthy(g.ret) THEN g.ret ELSE @,
              !.clientLoading = IF Truthy(g.ret) THEN @ ELSE TRUE,
              !.clientError = Null,
              !.loads = Append(@, NewLoad("useClient", g.ret))]
        /\ UNCHANGED <<clients, loadFrame>>

\* getClient resolves before the timer
FetchClientResolves(i, data, quota) ==
    LET l == hook.loads[i]
        w == setCached(storage, ClientKey, data, LIST_TTL, now, storageDenied \/ quota)
    IN  /\ l.hook = "useClient" /\ l.state = "pending"
        /\ storage' = w.st
        /\ hook' = [hook EXCEPT !.client = data, !.clientLoading = FALSE,
                                !.loads[i].state = "resolved"]
        /\ UNCHANGED <<clients, loadFrame>>

\* getClient rejects, or the timer wins the race
FetchClientFails(i, fetchErr) ==
    LET l == hook.loads[i]
        report == ~Truthy(l.cached)
    IN  /\ l.hook = "useClient" /\ l.state = "pending"
        /\ hook' = [hook EXCEPT
              !.clientError = IF report THEN fetchErr.message ELSE @,
              !.toasts = IF report THEN Append(@, "Failed to load client") ELSE @,
              !.clientLoading = FALSE,
              !.loads[i].state = "failed",
              !.loads[i].error = fetchErr]
        /\ UNCHANGED <<storage, clients, loadFrame>>

\* The late fulfilment written where a fulfilment in time is written
LateAnswer_Applies(i, data) ==
    LET l == hook.loads[i]
        key == IF l.hook = "useClients" THEN "clients" ELSE ClientKey
        w == setCached(storage, key, data, LIST_TTL, now, storageDenied)
        list == l.hook = "useClients" /\ Truthy(data)
    IN  /\ l.state = "failed" /\ l.error = LoadTimeout(l.hook)
        /\ clients' = IF list THEN ItemsOf(data) ELSE clients
        /\ storage' = IF list \/ l.hook = "useClient" THEN w.st ELSE storage
        /\ hook' = [hook EXCEPT !.client = IF l.hook = "useClient" THEN data ELSE @,
                                !.loads[i].state = "ignored",
                                !.loads[i].data = data]
        /\ UNCHANGED loadFrame

\* getClients or getClient fulfils after the timer has won the race: the
\* promise of Promise.race is settled and the call has left its try block, so
\* no code of the hook runs
LateAnswer(i, data) ==
    LET l == hook.loads[i]
    IN  /\ l.state = "failed" /\ l.error = LoadTimeout(l.hook)
        /\ hook' = [hook EXCEPT !.loads[i].state = "ignored",
                                !.loads[i].data = data]
        /\ UNCHANGED <<storage, clients, loadFrame>>

\* cached lists and rows left in localStorage by an earlier page load
ListSeeds ==
    {Absent,
     [kind |-> "json", data |-> List(<<Entity(ServerId(2), 2)>>), expiresAt |-> Num(2)]}
RowSeeds ==
    {Absent, [kind |-> "json", data |-> ClientRow(2), expiresAt |-> Num(2)]}

InitLoad ==
    /\ now = 1
    /\ \E e \in ListSeeds, c \in RowSeeds : storage = SeedStorage(e, Absent, c)
    /\ storageDenied \in BOOLEAN
    /\ lastOp = NoOp
    /\ lastSet = NoSet
    /\ fetches = <<>>
    /\ clients = <<>>
    /\ calls = <<>>
    /\ server = <<>>
    /\ nextId = 1
    /\ auth = AuthInit
    /\ hook = HookInit
    /\ modal = ModalInit
    /\ generator = GeneratorInit
    /\ promptEditor = EditorInit

NextLoad ==
    \/ Tick
    \/ FetchClients
    \/ \E i \in 1..Len(hook.loads), d \in ClientLists, q \in BOOLEAN :
          FetchClientsResolves(i, d, q)
    \/ \E i \in 1..Len(hook.loads), err \in LoadErrors("useClients") :
          FetchClientsFails(i, err)
    \/ FetchClientWithoutId
    \/ FetchClient
    \/ \E i \in 1..Len(hook.loads), d \in ClientRows, q \in BOOLEAN :
          FetchClientResolves(i, d, q)
    \/ \E i \in 1..Len(hook.loads), err \in LoadErrors("useClient") :
          FetchClientFails(i, err)
    \/ \E i \in 1..Len(hook.loads) :
          \E d \in IF hook.loads[i].hook = "useClients" THEN ClientLists ELSE ClientRows :
              LateAnswer(i, d)

SpecLoad == InitLoad /\ [][NextLoad]_vars

----------------------------------------------------------------------------
(* useClients: loads of the list racing with mutations *)

\* the is_active column, carried by the data field: 1 is an active client
IsActive(c) == c.val = 1

\* An array of client rows with the filter of the getClients call it came
\* from. The filter is no property of the array; it is kept to tell the lists
\* of the two kinds of call apart.
ListOf(items, activeOnly) ==
    [t |-> "obj", n |-> 60, items |-> items, activeOnly |-> activeOnly]

\* getClients(activeOnly) of lib/supabase: the rows of the table, the active
\* ones when activeOnly is set
RemoteSelect(tbl, activeOnly) ==
    ListOf(IF activeOnly THEN SelectSeq(tbl, IsActive) ELSE tbl, activeOnly)

\* the number of mutations the remote table has confirmed
Confirmed == Cardinality({k \in 1..Len(calls) : calls[k].remote = "ok"})

\* the remote table answers the getClients call of load i; the answer is on
\* its way to the browser
GetClientsReads(i) ==
    LET l == hook.loads[i]
    IN  /\ l.hook = "useClients"
        /\ l.data = Undef
        /\ l.state = "pending" \/ (l.state = "failed" /\ l.error = LoadTimeout(l.hook))
        /\ hook' = [hook EXCEPT !.loads[i].data = RemoteSelect(server, l.activeOnly),
                                !.loads[i].seen = Confirmed]
        /\ UNCHANGED <<storage, clients, loadFrame>>

\* the answer arrives before the timer fires
GetClientsFulfils(i, quota) ==
    /\ hook.loads[i].data # Undef
    /\ FetchClientsResolves(i, hook.loads[i].data, quota)

\* the 2000 ms timer fires first
GetClientsTimesOut(i) ==
    FetchClientsFails(i, LoadTimeout("useClients"))

\* the remote call fails instead of answering
GetClientsRejects(i) ==
    /\ hook.loads[i].data = Undef
    /\ FetchClientsFails(i, Err(Msg("Failed to fetch"), ""))

\* the answer arrives after the timer has fired
GetClientsFulfilsLate(i) ==
    /\ hook.loads[i].data # Undef
    /\ LateAnswer(i, hook.loads[i].data)

\* the rows of the table when the page loads
ServerRows == <<Entity(ServerId(1), 1), Entity(ServerId(2), 2)>>

\* lists left in localStorage by the hook instances of an earlier page:
\* useClients() caches getClients(false), useClientSelect() getClients(true)
SyncSeeds ==
    {Absent} \cup
    {[kind |-> "json", data |-> RemoteSelect(ServerRows, a), expiresAt |-> LIST_TTL] :
        a \in BOOLEAN}

\* a mounted useClients instance with either option, before its effect has run
InitSync ==
    /\ now = 1
    /\ \E e \in SyncSeeds : storage = SeedStorage(e, Absent, Absent)
    /\ storageDenied = FALSE
    /\ lastOp = NoOp
    /\ lastSet = NoSet
    /\ fetches = <<>>
    /\ clients = <<>>
    /\ calls = <<>>
    /\ server = ServerRows
    /\ nextId = Len(ServerRows) + 1
    /\ auth = AuthInit
    /\ \E a \in BOOLEAN : hook = [HookInit EXCEPT !.activeOnly = a]
    /\ modal = ModalInit
    /\ generator = GeneratorInit
    /\ promptEditor = EditorInit

\* The page is left for one whose component uses the hook with the option
\* activeOnly (useClients() or useClientSelect()), once every call of the old
\* instance has settled: useState([]), useState(true), useState(null).
Remount(activeOnly) ==
    /\ \A i \in 1..Len(hook.loads) : hook.loads[i].state # "pending"
    /\ \A k \in 1..Len(calls) : calls[k].remote # "pending"
    /\ clients' = <<>>
    /\ hook' = [hook EXCEPT !.activeOnly = activeOnly, !.loading = TRUE, !.error = Null]
    /\ UNCHANGED <<storage, loadFrame>>

\* a mutation begins while fewer than MaxSyncCalls have begun
MutationStarts ==
    /\ Len(calls) < MaxSyncCalls
    /\ \/ \E v \in Vals : CreateStart(v)
       \/ \E id \in Ids(clients), v \in Vals : UpdateStart(id, v)
       \/ \E id \in Ids(clients) : RemoveStart(id)

NextSync ==
    \/ \E a \in BOOLEAN : Remount(a)
    \/ FetchClients
    \/ \E i \in 1..Len(hook.loads) : GetClientsReads(i)
    \/ \E i \in 1..Len(hook.loads), q \in BOOLEAN : GetClientsFulfils(i, q)
    \/ \E i \in 1..Len(hook.loads) : GetClientsTimesOut(i)
    \/ \E i \in 1..Len(hook.loads) : GetClientsRejects(i)
    \/ \E i \in 1..Len(hook.loads) : GetClientsFulfilsLate(i)
    \/ MutationStarts
    \/ \E i \in 1..Len(calls) : CreateSucceeds(i)
    \/ \E i \in 1..Len(calls) : UpdateSucceeds(i)
    \/ \E i \in 1..Len(calls) : RemoveSucceeds(i)

SpecSync == InitSync /\ [][NextSync]_vars

----------------------------------------------------------------------------
(* Modal: the keydown handler *)

modalFrame == <<now, cacheVars, fetches, clientVars, auth, hook, generator,
                promptEditor>>

\* the Tab branch of handleKeyDown without its wrap-around: the index moves as
\* native tabbing would, off the list at its ends
HandleTab_NoWrap(length, idx, shiftKey) ==
    IF length = 0 THEN idx
    ELSE IF shiftKey THEN (IF idx <= 0 THEN -1 ELSE idx - 1)
    ELSE IF idx = length - 1 THEN -1 ELSE idx + 1

\* the Tab branch of handleKeyDown: the index of the element it focuses
HandleTab(length, idx, shiftKey) ==
    IF length = 0 THEN idx
    ELSE IF shiftKey
         THEN IF idx = -1 \/ idx = 0 THEN length - 1 ELSE idx - 1
    ELSE IF idx = -1 \/ idx = length - 1 THEN 0 ELSE idx + 1

\* the parent renders the Modal with isOpen: the effect focuses the container
OpenModal(length) ==
    /\ ~modal.isOpen
    /\ modal' = [modal EXCEPT !.isOpen = TRUE, !.focusable = length,
                              !.activeElement = -1, !.last = NoKey]
    /\ UNCHANGED modalFrame

\* onClose has made the parent render the Modal closed
CloseModal ==
    /\ modal.isOpen
    /\ modal' = [modal EXCEPT !.isOpen = FALSE, !.focusable = 0,
                              !.activeElement = -1]
    /\ UNCHANGED modalFrame

\* a keydown reaches the document listener of an open Modal; on Escape the
\* handler calls onClose and leaves closing to the parent
KeyDown(key, shiftKey) ==
    LET closes == key = "Escape" /\ modal.closeOnEscape
        idx == IF key = "Tab" /\ ~closes
               THEN HandleTab(modal.focusable, modal.activeElement, shiftKey)
               ELSE modal.activeElement
    IN  /\ modal.isOpen
        /\ modal' = [modal EXCEPT
              !.activeElement = idx,
              !.last = [key |-> key, shiftKey |-> shiftKey,
                        from |-> modal.activeElement,
                        defaultPrevented |-> key = "Tab" /\ ~closes,
                        calledOnClose |-> closes]]
        /\ UNCHANGED modalFrame

\* the user clicks an element of the modal, its container or the backdrop
FocusMoves(idx) ==
    /\ modal.isOpen
    /\ idx < modal.focusable
    /\ idx # modal.activeElement
    /\ modal' = [modal EXCEPT !.activeElement = idx]
    /\ UNCHANGED modalFrame

\* the content renders with more or fewer focusable elements (a button is
\* disabled, a field appears); a focused element that is gone loses the focus
ContentChanges(length) ==
    /\ modal.isOpen
    /\ length # modal.focusable
    /\ modal' = [modal EXCEPT !.focusable = length,
                              !.activeElement = IF @ >= length THEN -1 ELSE @]
    /\ UNCHANGED modalFrame

\* the parent renders with a new onClose function: the effect is cleaned up
\* and runs again, which focuses the container
Rerender ==
    /\ modal.isOpen
    /\ modal.activeElement # -1
    /\ modal' = [modal EXCEPT !.activeElement = -1]
    /\ UNCHANGED modalFrame

KeyboardKeys == {"Tab", "Escape", "Enter"}

InitModal ==
    /\ now = 1
    /\ storage = SeedStorage(Absent, Absent, Absent)
    /\ storageDenied = FALSE
    /\ lastOp = NoOp
    /\ lastSet = NoSet
    /\ fetches = <<>>
    /\ clients = <<>>
    /\ calls = <<>>
    /\ server = <<>>
    /\ nextId = 1
    /\ auth = AuthInit
    /\ hook = HookInit
    /\ \E c \in BOOLEAN : modal = [ModalInit EXCEPT !.closeOnEscape = c]
    /\ generator = GeneratorInit
    /\ promptEditor = EditorInit

NextModal ==
    \/ \E n \in 0..MaxFocusable : OpenModal(n)
    \/ CloseModal
    \/ \E k \in KeyboardKeys, sh \in BOOLEAN : KeyDown(k, sh)
    \/ \E i \in -1..(MaxFocusable - 1) : FocusMoves(i)
    \/ \E n \in 0..MaxFocusable : ContentChanges(n)
    \/ Rerender

SpecModal == InitModal /\ [][NextModal]_vars

----------------------------------------------------------------------------
(* useGenerator.generate *)

genFrame == <<now, cacheVars, fetches, clientVars, auth, hook, modal, promptEditor>>

\* an AIError of lib/ai with its code
AIError(code, message) ==
    [t |-> "obj", n |-> 51, message |-> message, code |-> code]
\* what generateCompletion and saveGeneratedComments reject with
GenerationErrors ==
    {AIError("NO_PROVIDERS", Msg("no providers")), AIError("ALL_FAILED", Msg("all failed")),
     AIError("RATE_LIMIT", Msg("Rate limit reached")),
     Err(Msg("Failed to fetch"), ""), Err(Str(0), "")}

\* the message the catch block of generate shows for err
GenerationErrorMessage(err) ==
    IF err.n = AIError("", Null).n
    THEN IF err.code = "NO_PROVIDERS"
         THEN Msg("No AI providers configured. Please add one in Settings.")
         ELSE IF err.code = "ALL_FAILED"
         THEN Msg("All AI providers failed. Please check your API keys.")
         ELSE err.message
    ELSE IF Truthy(err.message) THEN err.message
    ELSE Msg("Failed to generate comments")

\* generate with an input that lacks client, platform or content
GenerateRejectsInput ==
    /\ generator.toasts < MaxRuns
    /\ generator' = [generator EXCEPT !.toasts = @ + 1]
    /\ UNCHANGED genFrame

\* generate with a complete input, up to its first await
Generate ==
    /\ Len(generator.runs) < MaxRuns
    /\ generator' = [generator EXCEPT
          !.loading = TRUE, !.error = Null, !.options = 0, !.generationId = 0,
          !.runs = Append(@, [pc |-> "getPlatformPrompt", parsed |-> 0])]
    /\ UNCHANGED genFrame

\* getPlatformPrompt settles; a rejection is replaced by the defaults
PlatformPromptSettles(i) ==
    /\ generator.runs[i].pc = "getPlatformPrompt"
    /\ generator' = [generator EXCEPT !.runs[i].pc =
          IF generator.organization THEN "getSystemPromptTemplate"
          ELSE "generateCompletion"]
    /\ UNCHANGED genFrame

\* getSystemPromptTemplate settles; a rejection is logged
TemplateSettles(i) ==
    /\ generator.runs[i].pc = "getSystemPromptTemplate"
    /\ generator' = [generator EXCEPT !.runs[i].pc = "generateCompletion"]
    /\ UNCHANGED genFrame

\* catch (err) and finally
GenerateCatch(g, i, errorMessage) ==
    [g EXCEPT !.error = errorMessage, !.loading = FALSE, !.runs[i].pc = "failed"]

\* generateCompletion resolves; parsed: parseCommentOptions(...).length
CompletionResolves(i, parsed) ==
    /\ generator.runs[i].pc = "generateCompletion"
    /\ generator' =
          IF parsed = 0
          THEN GenerateCatch(generator, i,
                             Msg("Failed to parse comment options from AI response"))
          ELSE [generator EXCEPT !.runs[i].pc = "saveGeneratedComments",
                                 !.runs[i].parsed = parsed]
    /\ UNCHANGED genFrame

CompletionRejects(i, err) ==
    /\ generator.runs[i].pc = "generateCompletion"
    /\ generator' = GenerateCatch(generator, i, GenerationErrorMessage(err))
    /\ UNCHANGED genFrame

\* saveGeneratedComments resolves with the row of the generation
SaveResolves(i) ==
    /\ generator.runs[i].pc = "saveGeneratedComments"
    /\ generator' = [generator EXCEPT
          !.options = generator.runs[i].parsed, !.generationId = i,
          !.loading = FALSE, !.runs[i].pc = "done"]
    /\ UNCHANGED genFrame

SaveRejects(i, err) ==
    /\ generator.runs[i].pc = "saveGeneratedComments"
    /\ generator' = GenerateCatch(generator, i, GenerationErrorMessage(err))
    /\ UNCHANGED genFrame

\* a mounted useGenerator in a provider with or without an organization
InitGenerator ==
    /\ now = 1
    /\ storage = SeedStorage(Absent, Absent, Absent)
    /\ storageDenied = FALSE
    /\ lastOp = NoOp
    /\ lastSet = NoSet
    /\ fetches = <<>>
    /\ clients = <<>>
    /\ calls = <<>>
    /\ server = <<>>
    /\ nextId = 1
    /\ auth = AuthInit
    /\ hook = HookInit
    /\ modal = ModalInit
    /\ \E o \in BOOLEAN : generator = [GeneratorInit EXCEPT !.organization = o]
    /\ promptEditor = EditorInit

NextGenerator ==
    \/ GenerateRejectsInput
    \/ Generate
    \/ \E i \in 1..Len(generator.runs) : PlatformPromptSettles(i)
    \/ \E i \in 1..Len(generator.runs) : TemplateSettles(i)
    \/ \E i \in 1..Len(generator.runs), parsed \in 0..2 : CompletionResolves(i, parsed)
    \/ \E i \in 1..Len(generator.runs), err \in GenerationErrors : CompletionRejects(i, err)
    \/ \E i \in 1..Len(generator.runs) : SaveResolves(i)
    \/ \E i \in 1..Len(generator.runs), err \in GenerationErrors : SaveRejects(i, err)

SpecGenerator == InitGenerator /\ [][NextGenerator]_vars

----------------------------------------------------------------------------
(* PromptEditorModal *)

editorFrame == <<now, cacheVars, fetches, clientVars, auth, hook, modal, generator>>

\* the contents of the form the parent passes as formData
Forms == {1, 2}

\* The effect with the dependencies isOpen, isInitialized, fullClient, formData:
\* initializePrompt up to its await
InitializePromptEffect(e) ==
    IF e.isOpen /\ ~e.isInitialized
    THEN [e EXCEPT !.isLoading = TRUE,
                   !.requests = Append(@, [formData |-> e.formData,
                                           opening |-> e.openings,
                                           state |-> "pending"])]
    ELSE e

\* the parent opens the modal with the form as it is now
OpenEditor(formData) ==
    /\ ~promptEditor.isOpen
    /\ promptEditor.openings < MaxOpenings
    /\ promptEditor' = InitializePromptEffect(
          [promptEditor EXCEPT !.isOpen = TRUE, !.formData = formData,
                               !.openings = @ + 1])
    /\ UNCHANGED editorFrame

\* generatePromptForClipboard resolves, with the prompt or with null
PromptResolves(i, ok) ==
    LET r == promptEditor.requests[i]
        freshPrompt == IF ok THEN FreshPrompt(r.formData, r.opening) ELSE Null
    IN  /\ r.state = "pending"
        /\ promptEditor' = [promptEditor EXCEPT
              !.editedPrompt = IF Truthy(freshPrompt) THEN freshPrompt ELSE @,
              !.isInitialized = IF Truthy(freshPrompt) THEN TRUE ELSE @,
              !.isLoading = FALSE,
              !.requests[i].state = "resolved"]
        /\ UNCHANGED editorFrame

\* onChange of the text area, which is rendered when isLoading is false
EditPrompt ==
    /\ promptEditor.isOpen
    /\ ~promptEditor.isLoading
    /\ promptEditor' = [promptEditor EXCEPT !.editedPrompt = EditedText(promptEditor.openings)]
    /\ UNCHANGED editorFrame

\* The Generate button, disabled while isLoading. closes: onSave makes the
\* parent close the modal; when it stays open the effect runs again if
\* isInitialized has changed.
HandleSave(closes) ==
    LET e == [promptEditor EXCEPT !.saved = promptEditor.editedPrompt,
                                  !.editedPrompt = NoText,
                                  !.isInitialized = FALSE,
                                  !.isOpen = ~closes]
    IN  /\ promptEditor.isOpen
        /\ ~promptEditor.isLoading
        /\ Len(promptEditor.requests) < MaxOpenings
        /\ promptEditor' = IF promptEditor.isInitialized THEN InitializePromptEffect(e)
                           ELSE e
        /\ UNCHANGED editorFrame

\* The X button of the header, enabled whenever the modal is open, and the
\* Close button; onClose makes the parent close the modal
HandleClose ==
    /\ promptEditor.isOpen
    /\ promptEditor' = [promptEditor EXCEPT !.editedPrompt = NoText,
                                            !.isInitialized = FALSE,
                                            !.isOpen = FALSE]
    /\ UNCHANGED editorFrame

InitEditor ==
    /\ now = 1
    /\ storage = SeedStorage(Absent, Absent, Absent)
    /\ storageDenied = FALSE
    /\ lastOp = NoOp
    /\ lastSet = NoSet
    /\ fetches = <<>>
    /\ clients = <<>>
    /\ calls = <<>>
    /\ server = <<>>
    /\ nextId = 1
    /\ auth = AuthInit
    /\ hook = HookInit
    /\ modal = ModalInit
    /\ generator = GeneratorInit
    /\ promptEditor = EditorInit

NextEditor ==
    \/ \E f \in Forms : OpenEditor(f)
    \/ \E i \in 1..Len(promptEditor.requests), ok \in BOOLEAN : PromptResolves(i, ok)
    \/ EditPrompt
    \/ \E closes \in BOOLEAN : HandleSave(closes)
    \/ HandleClose

SpecEditor == InitEditor /\ [][NextEditor]_vars

----------------------------------------------------------------------------
(* useClients mutations: claims C1 to C6 *)

Failed(i, kind) == calls[i].kind = kind /\ calls[i].remote = "fail"

\* C1: when the remote update call fails, the collection after update has
\* settled equals the collection as it was before the call began.
C1_UpdateFailureRestoresCollection ==
    \A i \in 1..Len(calls) : Failed(i, "update") => calls[i].post = calls[i].pre

\* C2: remove takes the entity out of the collection as soon as the call starts,
\* and when the remote delete call fails the collection is back at the snapshot
\* taken before the removal, the entity present again.
C2_RemoveFailureRestoresEntity ==
    \A i \in 1..Len(calls) :
        calls[i].kind = "remove" =>
            /\ ~Has(calls[i].applied, calls[i].id)
            /\ Failed(i, "remove") =>
                  (calls[i].post = calls[i].pre /\ Has(calls[i].post, calls[i].id))

\* C3: when the remote create call fails, the collection after create has
\* returned equals the collection as it was before the call began.
C3_CreateFailureRestoresCollection ==
    \A i \in 1..Len(calls) : Failed(i, "create") => calls[i].post = calls[i].pre

\* C4: when the remote call fails, create, update and remove resolve (never
\* reject) with a value whose error field holds the failure and whose data
\* field is null.
C4_FailureResolvesWithError ==
    \A i \in 1..Len(calls) :
        calls[i].remote = "fail" =>
            /\ calls[i].status = "resolved"
            /\ calls[i].retError = "remote"
            /\ calls[i].retData = NoEntity

\* C5: every settled call has emitted exactly one notification: a success
\* notification when the remote call succeeded, an error notification when it
\* failed.
C5_ExactlyOneNotification ==
    \A i \in 1..Len(calls) :
        /\ calls[i].remote = "ok" =>
              (calls[i].toastSuccess = 1 /\ calls[i].toastError = 0)
        /\ calls[i].remote = "fail" =>
              (calls[i].toastSuccess = 0 /\ calls[i].toastError = 1)

\* C6: create appends its tentative entity before the remote call settles, and
\* when the remote call succeeds exactly that entity is replaced by the
\* server-returned one, every other entity staying as it was.
C6_SuccessReplacesOnlyTentative ==
    \A i \in 1..Len(calls) :
        LET c == calls[i]
            tentative == Entity(c.id, c.val)
        IN  c.kind = "create" =>
              /\ c.applied = Append(c.pre, tentative)
              /\ c.remote = "ok" =>
                    \E j \in 1..Len(c.mid) :
                        /\ c.mid[j] = tentative
                        /\ c.post = [c.mid EXCEPT ![j] = c.retData]

----------------------------------------------------------------------------
(* The cache store: claims C7, C8, C9 *)

Positive(ttl) == ttl.t = "inf" \/ (ttl.t = "num" /\ ttl.n > 0)

GetRightAfterSet == lastOp.op = "get" /\ lastOp.afterSet /\ Positive(lastOp.ttl)

\* C7 as stated: for every key, value and ttl > 0, getCached right after
\* setCached (same millisecond, nothing in between) returns the value set.
C7_GetAfterSetReturnsValue ==
    GetRightAfterSet => lastOp.ret = lastOp.data

\* C7, amended: for every key, every value that JSON serialization gives back
\* unchanged and every finite ttl > 0, getCached right after a setCached whose
\* storage write succeeded returns the value set, unless its own storage read
\* raises.
C7_GetAfterStoredSetReturnsValue ==
    (/\ GetRightAfterSet
     /\ lastOp.wrote
     /\ ~lastOp.caught
     /\ RoundTrips(lastOp.data)
     /\ lastOp.ttl.t = "num")
    => lastOp.ret = lastOp.data

C7_Witness ==
    /\ GetRightAfterSet
    /\ lastOp.wrote
    /\ lastOp.ttl.t = "num"
    /\ lastOp.data = Num(0)
    /\ lastOp.ret = Num(0)

\* the latest setCached was of the key just read, elapsed: milliseconds since it
GetSinceSet == lastOp.op = "get" /\ lastSet.set /\ lastSet.key = lastOp.key
                 /\ lastSet.ttl.t = "num"
Elapsed == lastOp.at - lastSet.at

\* C8 as stated: once ttl milliseconds have elapsed since setCached(k, v, ttl),
\* with no later set of k, getCached(k) returns null and the storage no longer
\* lists k.
C8_AbsentOnceTtlElapsed ==
    (GetSinceSet /\ Elapsed >= lastSet.ttl.n)
    => (lastOp.ret = Null /\ ~lastOp.listed)

\* C8, amended: once more than ttl milliseconds have elapsed since a
\* setCached(k, v, ttl) whose storage write succeeded, with no later set of k,
\* getCached(k) returns null and, unless its storage read raises, the storage
\* no longer lists k.
C8_AbsentAfterTtlExceeded ==
    (GetSinceSet /\ lastSet.wrote /\ Elapsed > lastSet.ttl.n)
    => (lastOp.ret = Null /\ (~lastOp.caught => ~lastOp.listed))

C8_Witness ==
    /\ GetSinceSet
    /\ lastSet.wrote
    /\ Elapsed > lastSet.ttl.n
    /\ lastOp.evicted
    /\ lastOp.ret = Null

\* C9: no cache function lets an exception out, and a getCached whose storage
\* read or parse raised reports null.
C9_NoCacheErrorPropagates ==
    /\ ~lastOp.threw
    /\ (lastOp.op = "get" /\ lastOp.caught) => lastOp.ret = Null

C9_Witness ==
    /\ lastOp.op = "get"
    /\ lastOp.caught
    /\ ~storageDenied
    /\ ~lastOp.threw
    /\ lastOp.ret = Null

----------------------------------------------------------------------------
(* fetchWithCache: claim C10 *)

\* C10 as stated: when the cache holds an unexpired entry for the key, whatever
\* the stored value, fetchWithCache resolves with that value at once, before and
\* whatever way fetchFn settles.
C10_HeldEntryResolvesAtOnce ==
    \A i \in 1..Len(fetches) :
        fetches[i].held =>
            (fetches[i].result = "resolved" /\ fetches[i].value = fetches[i].heldVal)

----------------------------------------------------------------------------
(* fetchWithCache: claims C11, C12, C13 *)

\* the entry { data, expiresAt: t + ttl } under which a value is found again
FreshEntry(data, t, ttl) ==
    [kind |-> "json", data |-> data, expiresAt |-> Plus(t, ttl)]

EntryOf(st, i) == st[CACHE_PREFIX \o fetches[i].key]

\* the step is call i's fetchFn resolving with d / rejecting with err
ResolvesStep(i, d, q) == fetches'[i].fetch = "ok" /\ FetchFnResolves(i, d, q)
RejectsStep(i, err) == fetches'[i].fetch = "fail" /\ FetchFnRejects(i, err)

\* C11 as stated: after a cache hit fetchFn is invoked exactly once, in the
\* background; when it succeeds the key's entry becomes the fresh value with
\* expiry = completion time + ttl; when it fails the stale entry is unchanged.
C11_BackgroundRefreshOverwrites ==
    [][\A i \in 1..Len(fetches) :
          fetches[i].mode = "bg" =>
            /\ fetches[i].invoked = 1
            /\ \A d \in FetchResults, q \in BOOLEAN :
                  ResolvesStep(i, d, q) =>
                      EntryOf(storage', i) = FreshEntry(d, now, fetches[i].ttl)
            /\ \A err \in FetchErrors :
                  RejectsStep(i, err) => storage' = storage]_vars

\* C11, amended: after a cache hit fetchFn is invoked exactly once, in the
\* background; when it succeeds with a value JSON serialization gives back
\* unchanged, the ttl is finite and the storage write does not raise, the key's
\* entry becomes that value with expiry = completion time + ttl; when the write
\* raises, or fetchFn fails, the stale entry is unchanged.
C11_BackgroundRefreshOverwritesWhenStored ==
    [][\A i \in 1..Len(fetches) :
          fetches[i].mode = "bg" =>
            /\ fetches[i].invoked = 1
            /\ \A d \in FetchResults, q \in BOOLEAN :
                  ResolvesStep(i, d, q) =>
                      IF q \/ storageDenied
                      THEN storage' = storage
                      ELSE (RoundTrips(d) /\ fetches[i].ttl.t = "num") =>
                              EntryOf(storage', i) = FreshEntry(d, now, fetches[i].ttl)
            /\ \A err \in FetchErrors :
                  RejectsStep(i, err) => storage' = storage]_vars

\* one background refresh has overwritten the entry, another has failed
C11_Witness ==
    \E i, j \in 1..Len(fetches) :
        /\ fetches[i].mode = "bg" /\ fetches[i].fetch = "ok"
        /\ fetches[j].mode = "bg" /\ fetches[j].fetch = "fail"
        /\ storage[CACHE_PREFIX \o "clients"].kind = "json"
        /\ storage[CACHE_PREFIX \o "clients"].data \in FetchResults

\* C12: when the cache holds no unexpired entry for the key and fetchFn fails,
\* fetchWithCache rejects with fetchFn's error and stores nothing in the cache
\* (the only change it makes to storage is getCached's removal of an expired
\* entry).
C12_MissAndFailureRejects ==
    [][/\ \A ttl \in Ttls :
            (/\ Len(fetches') > Len(fetches)
             /\ ~Held(storage, "clients", now, storageDenied)
             /\ FetchWithCache("clients", ttl))
            => /\ fetches'[Len(fetches')].mode = "await"
               /\ fetches'[Len(fetches')].invoked = 1
               /\ \A sk \in StorageKeys : storage'[sk] \in {storage[sk], Absent}
       /\ \A i \in 1..Len(fetches), err \in FetchErrors :
            (~fetches[i].held /\ RejectsStep(i, err))
            => /\ fetches'[i].result = "rejected"
               /\ fetches'[i].error = err
               /\ storage' = storage]_vars

C12_Witness ==
    \E i \in 1..Len(fetches) :
        /\ ~fetches[i].held
        /\ fetches[i].fetch = "fail"
        /\ fetches[i].result = "rejected"
        /\ fetches[i].error = "JWT expired"

\* C13 as stated: when the cache holds no unexpired entry for the key and
\* fetchFn succeeds, fetchWithCache invokes fetchFn exactly once, stores the
\* result under the key with the given ttl and resolves with the result.
C13_MissAndSuccessStores ==
    [][\A i \in 1..Len(fetches), d \in FetchResults, q \in BOOLEAN :
          (~fetches[i].held /\ ResolvesStep(i, d, q))
          => /\ fetches[i].invoked = 1
             /\ EntryOf(storage', i) = FreshEntry(d, now, fetches[i].ttl)
             /\ fetches'[i].result = "resolved"
             /\ fetches'[i].value = d]_vars

\* C13, amended: when the cache holds no unexpired entry for the key and
\* fetchFn succeeds, fetchWithCache invokes fetchFn exactly once and resolves
\* with its result; it stores the result under the key with the given ttl
\* when the value is one JSON serialization gives back unchanged, the ttl is
\* finite and the storage write does not raise, and stores nothing when the
\* write raises.
C13_MissAndSuccessResolves ==
    [][\A i \in 1..Len(fetches), d \in FetchResults, q \in BOOLEAN :
          (~fetches[i].held /\ ResolvesStep(i, d, q))
          => /\ fetches[i].invoked = 1
             /\ fetches'[i].result = "resolved"
             /\ fetches'[i].value = d
             /\ IF q \/ storageDenied
                THEN storage' = storage
                ELSE (RoundTrips(d) /\ fetches[i].ttl.t = "num") =>
                        EntryOf(storage', i) = FreshEntry(d, now, fetches[i].ttl)]_vars

\* a call that found nothing has resolved with a value the cache cannot give
\* back, another with a value that is now stored
C13_Witness ==
    \E i, j \in 1..Len(fetches) :
        /\ ~fetches[i].held /\ fetches[i].result = "resolved"
        /\ fetches[i].fetch = "ok" /\ fetches[i].value = NaN
        /\ ~fetches[j].held /\ fetches[j].result = "resolved"
        /\ fetches[j].fetch = "ok" /\ fetches[j].value = Obj(2)
        /\ storage[CACHE_PREFIX \o "clients"].kind = "json"
        /\ storage[CACHE_PREFIX \o "clients"].data = Obj(2)

----------------------------------------------------------------------------
(* AuthProvider: claims C14 to C18 *)

Anonymous(a) == a.user = Null /\ a.profile = Null /\ a.organization = Null
Authenticated(a) == a.user # Null /\ a.profile # Null /\ a.organization # Null

\* C14 as stated: once loading is false, user, profile and organization are
\* all non-null (Authenticated) or all null (Anonymous), never a mixture.
C14_NoMixedStateOnceLoaded ==
    ~auth.loading => (Authenticated(auth) \/ Anonymous(auth))

\* C15: a hard failure of the bootstrap (the session check fails other than by
\* its timer, or the insert of the missing users row fails) leaves a mounted
\* provider with user, profile and organization null, loading false and the
\* failure's message in error.
C15_HardFailureEndsAnonymous ==
    [][\A err \in RemoteErrors :
          (/\ auth.mounted
           /\ auth'.pc = "done"
           /\ \/ SessionThrows(err)
              \/ \E s \in {Null, Session} : SessionResolves(s, err)
              \/ InsertSettles(err))
          => /\ Anonymous(auth')
             /\ ~auth'.loading
             /\ auth'.error = ErrMessage(err)
             /\ auth'.error # Null]_vars

\* the insert of the missing row has failed after the cached profile was shown
C15_Witness ==
    /\ auth.outcome = "failed"
    /\ auth.inCatch
    /\ auth.mounted
    /\ auth.caught \in RemoteErrors
    /\ auth.error = Msg("Failed to fetch")
    /\ Anonymous(auth)
    /\ Held(storage, "userProfile", now, storageDenied)

\* C16: when the timer of the session check wins, a mounted provider ends with
\* user, profile and organization null, loading false and no error recorded.
C16_SessionTimeoutIsSoft ==
    [][(auth.mounted /\ auth'.pc = "done" /\ SessionTimesOut)
       => /\ Anonymous(auth')
          /\ ~auth'.loading
          /\ auth'.error = Null]_vars

C16_Witness ==
    /\ auth.outcome = "anonymous"
    /\ auth.caught = TimeoutError
    /\ auth.mounted
    /\ ~auth.loading
    /\ auth.error = Null

\* C17: when the session check yields a session and the profile fetch times
\* out, a mounted provider shows the profile the cache holds at that moment:
\* user is the session's user, profile the cached profile and organization the
\* cached profile's; when the cache holds none, what was shown stays.
C17_ProfileTimeoutShowsCached ==
    [][(auth.mounted /\ auth'.pc = "done" /\ ProfileFails(ProfileTimeout))
       => LET cached == getCached(storage, "userProfile", now, storageDenied).ret
          IN  /\ auth'.user = auth.session.user
              /\ auth'.profile = IF Truthy(cached) THEN cached ELSE auth.profile
              /\ auth'.organization = IF Truthy(cached)
                                      THEN OrNull(cached.organization)
                                      ELSE auth.organization]_vars

\* the profile fetch has timed out while the cache held a profile
C17_Witness ==
    /\ auth.outcome = "fallback"
    /\ auth.caught = ProfileTimeout
    /\ auth.mounted
    /\ auth.user = SessionUser
    /\ auth.profile = Profile("owner", Org)
    /\ auth.organization = Org
    /\ auth.pending = 0

\* C18 as stated: from the entry of the bootstrap on, a cached profile is
\* shown (the profile state is the cached profile) while the session check
\* has not completed.
C18_CachedProfileShownAtEntry ==
    (/\ auth.pc = "checkingSession"
     /\ auth.mounted
     /\ Held(storage, "userProfile", now, storageDenied))
    => auth.profile = storage[CACHE_PREFIX \o "userProfile"].data

----------------------------------------------------------------------------
(* fetchClients and fetchClient: claim C19 *)

HadCache(i) == Truthy(hook.loads[i].cached)

\* C19: a fetchClients or fetchClient call that found a cached value shows it
\* and sets error to null when it starts, and when its remote fetch fails or
\* times out it changes neither the data shown nor error and fires no toast;
\* a call that found none sets error to the failure's message and fires
\* exactly one error toast.
C19_FailureReportedOnlyWithoutCache ==
    [][/\ (Len(hook'.loads) > Len(hook.loads) /\ FetchClients)
          => LET cached == getCached(storage, "clients", now, storageDenied).ret
             IN  /\ hook'.error = Null
                 /\ hook'.toasts = hook.toasts
                 /\ Truthy(cached) => clients' = ItemsOf(cached)
       /\ (Len(hook'.loads) > Len(hook.loads) /\ FetchClient)
          => LET cached == getCached(storage, ClientKey, now, storageDenied).ret
             IN  /\ hook'.clientError = Null
                 /\ hook'.toasts = hook.toasts
                 /\ Truthy(cached) => hook'.client = cached
       /\ \A i \in 1..Len(hook.loads) :
            /\ \A err \in LoadErrors("useClients") :
                 (hook'.loads[i].state = "failed" /\ FetchClientsFails(i, err))
                 => IF HadCache(i)
                    THEN /\ clients' = clients
                         /\ hook'.error = hook.error
                         /\ hook'.toasts = hook.toasts
                    ELSE /\ hook'.error = err.message
                         /\ hook'.toasts = Append(hook.toasts, "Failed to load clients")
            /\ \A err \in LoadErrors("useClient") :
                 (hook'.loads[i].state = "failed" /\ FetchClientFails(i, err))
                 => IF HadCache(i)
                    THEN /\ hook'.client = hook.client
                         /\ hook'.clientError = hook.clientError
                         /\ hook'.toasts = hook.toasts
                    ELSE /\ hook'.clientError = err.message
                         /\ hook'.toasts = Append(hook.toasts, "Failed to load client")
      ]_vars

\* a fetchClients call over a cached list has failed silently, a fetchClient
\* call without cached row has failed and reported it
C19_Witness ==
    \E i, j \in 1..Len(hook.loads) :
        /\ hook.loads[i].hook = "useClients"
        /\ HadCache(i) /\ hook.loads[i].state = "failed"
        /\ clients = ItemsOf(hook.loads[i].cached)
        /\ hook.error = Null
        /\ hook.loads[j].hook = "useClient"
        /\ ~HadCache(j) /\ hook.loads[j].state = "failed"
        /\ hook.clientError # Null
        /\ hook.toasts = <<"Failed to load client">>

----------------------------------------------------------------------------
(* Modal: claim C20 *)

TabPress(shiftKey) ==
    /\ modal.isOpen /\ modal.focusable >= 1
    /\ modal'.last.key = "Tab"
    /\ KeyDown("Tab", shiftKey)

\* C20: while a Modal is open with at least one focusable element, every Tab
\* or Shift+Tab press leaves the focus on one of its focusable elements: Tab
\* moves to the next one, and from the last one or from outside to the first;
\* Shift+Tab moves to the previous one, and from the first one or from outside
\* to the last.
C20_FocusStaysInModal ==
    [][\A shiftKey \in BOOLEAN :
          TabPress(shiftKey) =>
            LET length == modal.focusable
                idx == modal.activeElement
            IN  /\ modal'.activeElement \in 0..(length - 1)
                /\ modal'.focusable = length
                /\ (~shiftKey /\ idx \in {-1, length - 1}) => modal'.activeElement = 0
                /\ (~shiftKey /\ idx \notin {-1, length - 1})
                      => modal'.activeElement = idx + 1
                /\ (shiftKey /\ idx \in {-1, 0}) => modal'.activeElement = length - 1
                /\ (shiftKey /\ idx \notin {-1, 0})
                      => modal'.activeElement = idx - 1]_vars

\* Tab from the last of several elements has moved the focus to the first
C20_Witness ==
    /\ modal.isOpen
    /\ modal.focusable >= 2
    /\ modal.last.key = "Tab" /\ ~modal.last.shiftKey
    /\ modal.last.from = modal.focusable - 1
    /\ modal.activeElement = 0

----------------------------------------------------------------------------
(* Overlapping mutations and loads: claims C21 to C23 *)

\* C21: mutations on the same clients collection are not serialized: when a
\* create fails while another create is in flight, its rollback also removes
\* the tentative entity the other create has applied, so the collection a
\* failed create leaves never holds the tentative entity of any create.
C21_RollbackRemovesOtherTentative ==
    \A i, j \in 1..Len(calls) :
        (i # j /\ Failed(i, "create") /\ calls[j].kind = "create")
            => ~Has(calls[i].post, calls[j].id)

\* Two creates with different tentative identifiers overlap; the second began
\* before the first settled, the first failed, and its rollback took the
\* second's tentative entity out of the collection while the second is pending.
C21_Witness ==
    \E i, j \in 1..Len(calls) :
        /\ i # j
        /\ Failed(i, "create")
        /\ calls[j].kind = "create" /\ calls[j].remote = "pending"
        /\ calls[j].id # calls[i].id
        /\ Has(calls[i].mid, calls[j].id)
        /\ ~Has(calls[i].post, calls[j].id)
        /\ ~Has(clients, calls[j].id)

\* C22: after a create, update or remove has succeeded and cleared the
\* 'clients' entry, no fetchClients call sets the displayed collection or the
\* cache to a list the table answered with before that mutation was confirmed:
\* a list that arrives in time was read after every confirmed mutation.
C22_NoStaleListAfterMutation ==
    [][\A i \in 1..Len(hook.loads) :
          (/\ hook.loads[i].state = "pending"
           /\ hook'.loads[i].state = "resolved"
           /\ Truthy(hook.loads[i].data))
            => hook.loads[i].seen = Confirmed]_vars

\* the load that a step has just marked as answered after its timeout
AnsweredLate(i) ==
    /\ hook.loads[i].state = "failed"
    /\ hook'.loads[i].state = "ignored"

\* C23: in fetchClients and fetchClient, a remote fetch that completes after
\* the 2000 ms timer has fired is ignored: the step in which it completes
\* changes neither the displayed collection, client, loading flags, errors and
\* toasts nor any cache entry.
C23_LateResultIgnored ==
    [][\A i \in 1..Len(hook.loads) :
          AnsweredLate(i) =>
            /\ clients' = clients
            /\ storage' = storage
            /\ hook'.client = hook.client
            /\ hook'.loading = hook.loading /\ hook'.clientLoading = hook.clientLoading
            /\ hook'.error = hook.error /\ hook'.clientError = hook.clientError
            /\ hook'.toasts = hook.toasts]_vars

\* A fetchClients call and a fetchClient call have both timed out and their
\* remote calls have then completed with a list and a row that are neither
\* displayed nor cached
C23_Witness ==
    /\ \E i \in 1..Len(hook.loads) :
          LET l == hook.loads[i]
          IN  /\ l.hook = "useClients" /\ l.state = "ignored"
              /\ l.error = LoadTimeout("useClients")
              /\ Truthy(l.data) /\ ItemsOf(l.data) # clients
              /\ getCached(storage, "clients", now, storageDenied).ret # l.data
    /\ \E i \in 1..Len(hook.loads) :
          LET l == hook.loads[i]
          IN  /\ l.hook = "useClient" /\ l.state = "ignored"
              /\ l.error = LoadTimeout("useClient")
              /\ Truthy(l.data) /\ hook.client # l.data
              /\ getCached(storage, ClientKey, now, storageDenied).ret # l.data

----------------------------------------------------------------------------
(* AuthProvider, continued: claims C24 to C27 *)

\* C24: the bootstrap always terminates: while the provider stays mounted,
\* loading eventually becomes false, whether the remote calls succeed, fail or
\* never answer.
C24_BootstrapTerminates == <>(~auth.mounted \/ ~auth.loading)

----------------------------------------------------------------------------
\* C25: when signOut of a mounted provider resolves with error null, user,
\* profile and organization are null and the 'userProfile' entry is absent; from then on
\* no step other than the completion of a SIGNED_IN handler's profile fetch
\* leaves the entry present, a profile fetch that began before the sign-out
\* included.
C25_SignOutLeavesNoProfile ==
    [][auth.mounted =>
          /\ (auth.signOut = "pending" /\ auth'.signOut = "ok")
                => (Anonymous(auth') /\ ~Listed(storage', "userProfile"))
          /\ (auth.signOut = "ok" /\ auth'.pending = auth.pending)
                => ~Listed(storage', "userProfile")]_vars

\* the unexpired cached profile, null when there is none
CachedProfile == getCached(storage, "userProfile", now, storageDenied).ret

C27_MockAuthStays ==
    (auth.outcome = "mock" /\ auth.mounted /\ auth.signOut = "none")
        => /\ auth.user = MockUser
           /\ auth.profile = MockProfile
           /\ auth.organization = MockProfile.organization
           /\ ~auth.loading

----------------------------------------------------------------------------
(* The shared 'clients' entry: claim C28 *)

\* C28: the list fetchClients takes from the cache entry 'clients' and
\* displays comes from a getClients call with the activeOnly option of the
\* hook instance that displays it.
C28_CachedListMatchesFilter ==
    \A i \in 1..Len(hook.loads) :
        LET l == hook.loads[i]
        IN  (l.hook = "useClients" /\ Truthy(l.cached))
                => l.cached.activeOnly = l.activeOnly

----------------------------------------------------------------------------
(* useGenerator and PromptEditorModal: claims C29 and C30 *)

\* the generate call has passed the input checks and has not settled
InFlight(i) == generator.runs[i].pc \notin {"done", "failed"}

\* C29: useGenerator.loading is true exactly while a generate call that passed
\* the input checks is in flight, two overlapping calls included.
C29_LoadingWhileInFlight ==
    generator.loading <=> \E i \in 1..Len(generator.runs) : InFlight(i)

\* C30: edits are one-time use: after Save or Close the text is cleared and
\* the initialized flag reset, so the text an open modal shows in its text
\* area was generated or typed during this opening, never during an earlier
\* one.
C30_OpensWithFreshPrompt ==
    (/\ promptEditor.isOpen
     /\ ~promptEditor.isLoading
     /\ promptEditor.editedPrompt # NoText)
        => promptEditor.editedPrompt.opening = promptEditor.openings

====
